---- MODULE Spec2Model ----
(***************************************************************************)
(* Job lifecycle (frontend Orchestrator + POST /api/transcribe), the       *)
(* transcriber's in-memory JobQueue, the frontend Downloader and the       *)
(* EmailerService poll loop of asteriske/scribe.                           *)
(*                                                                         *)
(* The state machines of this module share its variables:                  *)
(*   Spec, LiveSpec - the frontend: the transcriptions table, the HTTP     *)
(*                handler transcribe_url and the coroutine                 *)
(*                Orchestrator.process_url on one asyncio event loop.      *)
(*   QueueSpec, QueueLiveSpec - the transcriber: JobQueue (job table,      *)
(*                asyncio.Queue, worker task, executor threads).           *)
(*   DownloadSpec - process_url up to and through Downloader.download.     *)
(*   EmailerSpec, EmailerLiveSpec - EmailerService: ticks, message tasks,  *)
(*                semaphore, stop.                                         *)
(*   TagSpec - resolve_tag.                                                *)
(*   MessageSpec - one message through _process_email and the episode      *)
(*                source path.                                             *)
(*   ProcSpec - JobProcessor.process_url against POST /api/transcribe.     *)
(*   FetchSpec - ApplePodcastsScraper._fetch_page.                         *)
(*   CacheSpec - the audio cache and CleanupService.                       *)
(*   ImapSpec - the shared IMAP connection: fetch_unseen, move_to_folder.  *)
(***************************************************************************)
EXTENDS Integers, Sequences, FiniteSets, TLC

VARIABLES
    db,         \* rows of table transcriptions (frontend/core/models.py)
    task,       \* per submission slot: the request / process_url coroutine
    loop,       \* slot whose coroutine currently runs on the event loop, 0 = none
    good,       \* URLs whose download, transcription and save always succeed
    downloads,  \* history: how often Downloader.download was called per URL
    jobs,       \* JobQueue.jobs: job_id -> TranscriptionJob
    queue,      \* JobQueue.queue: the asyncio.Queue's items, oldest first
    putters,    \* submit_job calls suspended inside queue.put, oldest first
    ready,      \* suspended puts that were woken and wait for the event loop
    worker,     \* JobQueue._worker_task: "none", "waiting", "transcribing", "done"
    current_job_id, \* JobQueue.current_job_id, 0 = None
    threads,    \* job ids whose whisper_model.transcribe runs in the executor
    nextJob,    \* number of submit_job calls so far (each draws a fresh uuid4)
    now,        \* the last reading of the wall clock (datetime.utcnow())
    accepted,   \* history: job ids in the order submit_job returned them
    started,    \* history: job ids in the order they were set to processing
    outcome,    \* history: what the awaited transcription call of each job did
    everStopped, \* history: stop() has cancelled a worker
    dl,         \* the current Downloader.download call and its history
    svc,        \* EmailerService.start: position, shutdown event, tick locals
    mbox,       \* the mailbox: folder and \Seen flag of every message
    mtask,      \* the processing task of every message
    sem,        \* EmailerService.semaphore: free permits
    tagcall,    \* one call of resolve_tag: its arguments and its result
    msg,        \* one message inside _process_email / _process_episode_source_email
    proc,       \* one call of JobProcessor.process_url
    fetch,      \* one call of ApplePodcastsScraper._fetch_page
    cache,      \* the audio cache: files, the rows' cache columns, the clock
    imap        \* the IMAP session: folders by sequence number, selected folder

fvars == <<db, task, loop, good, downloads>>

qvars == <<jobs, queue, putters, ready, worker, current_job_id, threads, nextJob,
           now, accepted, started, outcome, everStopped>>

dvars == <<dl>>

evars == <<svc, mbox, mtask, sem>>

xvars == <<fetch, cache, imap>>

mvars == <<tagcall, msg, proc, xvars>>

vars == <<db, task, loop, good, downloads, jobs, queue, putters, ready, worker,
          current_job_id, threads, nextJob, now, accepted, started, outcome,
          everStopped, dl, svc, mbox, mtask, sem, tagcall, msg, proc, fetch, cache, imap>>

----------------------------------------------------------------------------
(* Bounds *)

MaxSubs == 2        \* submissions (HTTP requests or direct process_url calls)
MaxPolls == 2       \* max_wait / poll_interval of wait_for_completion
MaxJobs == 4        \* submit_job calls
MaxClock == 1       \* largest clock reading
queue_size == 2     \* settings.queue_size (10 by default), scaled down
MaxCalls == 2       \* process_url calls that reach the downloader
MaxMsgs == 3        \* messages that arrive in the two mailbox folders
MaxTicks == 2       \* poll ticks of the emailer
MaxWords == 2       \* whitespace-separated tokens of a subject line
MaxBodyUrls == 2    \* URLs written in the plain-text body of a message
MaxProcCalls == 2   \* calls of JobProcessor.process_url
MaxRetries == 3     \* largest max_retries an ApplePodcastsScraper is built with
MaxCacheClock == 9  \* largest clock reading (days) of the audio cache's model
MaxImapMsgs == 3    \* messages delivered to the IMAP account
max_concurrent_jobs == 2    \* settings.max_concurrent_jobs (3 by default)

Slots == 1..MaxSubs
JobIds == 1..MaxJobs

----------------------------------------------------------------------------
(* URLs and id derivation (frontend/utils/url_parser.py) *)

\* A URL is represented by the parts parse_url looks at: the domain family,
\* the URL form, and the identifier embedded in it.
UrlWatch == [kind |-> "youtube", form |-> "watch", key |-> 1]
UrlShort == [kind |-> "youtube", form |-> "youtu.be", key |-> 1]
UrlAudio == [kind |-> "direct", form |-> "mp3", key |-> 2]
UrlBad == [kind |-> "invalid", form |-> "none", key |-> 0]
UrlApple == [kind |-> "apple", form |-> "episode", key |-> 3]

URLs == {UrlWatch, UrlShort, UrlAudio, UrlBad}

NoId == <<>>

\* parse_url: ValueError for a URL without scheme/netloc; youtube ids keep
\* only the video id (the URL form is dropped); direct audio hashes the
\* whole URL string.
parse_url(u) ==
    IF u.kind = "invalid" THEN [ok |-> FALSE, id |-> NoId, source_type |-> "none"]
    ELSE IF u.kind = "youtube"
         THEN [ok |-> TRUE, id |-> <<"youtube", u.key>>, source_type |-> "youtube"]
    ELSE IF u.kind = "apple"
         THEN [ok |-> TRUE, id |-> <<"apple_podcasts", u.key>>,
               source_type |-> "apple_podcasts"]
         ELSE [ok |-> TRUE, id |-> <<"direct_audio", u.form, u.key>>,
               source_type |-> "direct_audio"]

----------------------------------------------------------------------------
(* The transcriptions table *)

Statuses == {"pending", "downloading", "transcribing", "completed", "failed"}

\* Transcription(id=..., source_url=..., status='pending', progress=0)
_create_job_record(id, u) ==
    [id |-> id, source_url |-> u, status |-> "pending", progress |-> 0,
     error |-> "", metadata |-> FALSE, transcript |-> FALSE]

\* filter_by(source_url=url).first()
BySourceUrl(d, u) == {r \in d : r.source_url = u}

\* A table whose id column is not a key (mutant of IntegrityError).
UniqueSourceUrlOnly(d, row) ==
    \E r \in d : r.source_url = row.source_url

\* id is the primary key, source_url is declared unique=True: a commit that
\* would break either raises IntegrityError.
IntegrityError(d, row) ==
    \E r \in d : r.id = row.id \/ r.source_url = row.source_url

\* Orchestrator._update_status: no-op when the row is not found.
_update_status(d, tid, status, progress) ==
    {IF r.id = tid THEN [r EXCEPT !.status = status, !.progress = progress]
     ELSE r : r \in d}

\* A failure handler that also resets progress (mutant of _mark_failed).
MarkFailedResetsProgress(d, tid, error) ==
    {IF r.id = tid THEN [r EXCEPT !.status = "failed", !.error = error,
                                  !.progress = 0]
     ELSE r : r \in d}

\* Orchestrator._mark_failed: status and error_message only.
_mark_failed(d, tid, error) ==
    {IF r.id = tid THEN [r EXCEPT !.status = "failed", !.error = error]
     ELSE r : r \in d}

\* Orchestrator._save_results: transcription_path, full_text, ... are set.
_save_results(d, tid) ==
    {IF r.id = tid THEN [r EXCEPT !.transcript = TRUE] ELSE r : r \in d}

----------------------------------------------------------------------------
(* Submission slots *)

NoUrl == [kind |-> "none", form |-> "none", key |-> 0]

\* pc: "new" unused; "ready" process_url scheduled or called, not yet run;
\* "created" .. "final" positions inside process_url; "sleeping" suspended in
\* asyncio.sleep of wait_for_completion; "done" returned.
\* http / http_id: status code and id in the HTTP answer; res / res_id:
\* the OrchestrationResult; created: this call inserted the Job record.
\* polls: sleeps of wait_for_completion so far (elapsed / poll_interval);
\* checks: check_status calls so far; entry_error: the error of the queue
\* entry as served by GET /jobs/{job_id} when its status was failed.
FreshTask ==
    [kind |-> "none", url |-> NoUrl, pc |-> "new", polls |-> 0,
     created |-> FALSE, http |-> 0, http_id |-> NoId,
     res |-> "none", res_id |-> NoId, checks |-> 0, entry_error |-> "None"]

\* Slots are taken in order (they are interchangeable).
CanTake(s) == task[s].pc = "new" /\ \A q \in Slots : q < s => task[q].pc # "new"

FrontendInit ==
    /\ db = {}
    /\ task = [s \in Slots |-> FreshTask]
    /\ loop = 0
    /\ good \in SUBSET {UrlWatch}
    /\ downloads = [u \in URLs |-> 0]

\* JobQueue.__init__
JobQueueInit ==
    /\ jobs = <<>>
    /\ queue = <<>>
    /\ putters = <<>>
    /\ ready = <<>>
    /\ worker = "none"
    /\ current_job_id = 0
    /\ threads = {}
    /\ nextJob = 0
    /\ now = 0
    /\ accepted = <<>>
    /\ started = <<>>
    /\ outcome = [j \in JobIds |-> "none"]
    /\ everStopped = FALSE

FileMissing == -1   \* _find_audio_file's None

\* One Downloader.download call.  pc: "idle", "info", "transfer", "verify",
\* "scrape", "fb_transfer", "fb_verify", "result" (download has returned),
\* "returned" (process_url has returned).  est: the size estimate (MB) that
\* extract_info(download=False) reported, 0 = none; file: size (MB) of the
\* file on disk for this id; found: size of the file _find_audio_file
\* returned; raised: text of the exception of the primary path; path: the
\* path whose size check ran; transfers / fallbacks: extract_info(download=
\* True) calls and _download_apple_podcasts_fallback calls of this call;
\* created: this process_url call inserted the Job record.
FreshDownload ==
    [pc |-> "idle", url |-> NoUrl, est |-> 0, file |-> FileMissing,
     found |-> FileMissing, raised |-> "", path |-> "none", result |-> "none",
     transfers |-> 0, fallbacks |-> 0, created |-> FALSE, calls |-> 0]

DownloaderInit == dl = FreshDownload

Msgs == 1..MaxMsgs

\* EmailerService.__init__: no event, no semaphore yet, nothing connected.
\* svc.pc: "new", "top" (the while test), "fetch_inbox", "mark_inbox",
\* "fetch_episodes", "mark_episodes", "gather", "idle" (wait_for),
\* "disconnecting", "returned", "exited" (asyncio.run is over).
\* svc.todo: the rest of the list the for loop iterates; svc.tasks: the
\* local list tasks; svc.tick: _poll_and_process calls so far; svc.stop_tick:
\* the tick during or after which stop() was called; svc.failed_tick: the
\* last tick in which a mailbox operation or a message's task raised.
\* mtask[m]: the task of message m: st, the tick that created it, n = the
\* number of tasks created for m so far.
EmailerInit ==
    /\ svc = [pc |-> "new", shutdown |-> FALSE, connected |-> FALSE,
              todo |-> <<>>, tasks |-> {}, tick |-> 0, stop_tick |-> 0,
              arrived |-> 0, failed_tick |-> 0]
    /\ mbox = [m \in Msgs |-> [folder |-> "none", flag |-> "absent"]]
    /\ mtask = [m \in Msgs |-> [st |-> "none", tick |-> 0, n |-> 0]]
    /\ sem = 0

\* No call of resolve_tag yet.
TagInit ==
    tagcall = [pc |-> "idle", is_none |-> FALSE, words |-> <<>>,
               available_tags |-> {}, result |-> [w |-> "none", up |-> FALSE]]

\* JobResult(url="", success=False) and the message before it is handed to
\* _process_email or _process_episode_source_email.
\* msg.pc: "idle", "extract", then for the inbox "no_urls_send",
\* "no_urls_move", "tag_config", "process", "send", "move", for the episode
\* sources "es_try", "es_send", "es_move", and "done" (the coroutine
\* returned) or "raised" (it ended with an exception).
\* msg.urls: the local list urls; msg.i: the loop's position in it;
\* msg.rcpt: the recipients still to be mailed for the current result;
\* msg.filed: the mailbox the message is in ("source": where it was fetched).
\* History: msg.submitted (urls given to submit_url, in order), msg.results
\* (the JobResults, in order), msg.mails (the mails sent, in order),
\* msg.move_failed (move_to_folder raised and was logged).
NoResult == [url |-> "", success |-> FALSE]

FreshMessage ==
    [pc |-> "idle", folder |-> "none", body_text |-> <<>>, body_html |-> <<>>,
     urls |-> <<>>, i |-> 0, tag_config |-> [is_none |-> TRUE, destination_emails |-> <<>>],
     result |-> NoResult, rcpt |-> <<>>, filed |-> "source",
     submitted |-> <<>>, results |-> <<>>, mails |-> <<>>, move_failed |-> FALSE]

\* The URLs process_url is called with, and the frontend's Job of each.
ProcUrls == {"yt_watch", "mp3"}

NoJob == [status |-> "none", error |-> "None"]

\* JobProcessor before its first call.  proc.pc: "idle", "submit", "wait",
\* "transcript", "summary", and for _process_existing "wait_existing",
\* "transcript_existing", "summary_existing".  proc.jobs: the frontend's
\* Job per URL; proc.created: how many Jobs were ever created per URL.
\* Per call: proc.answer (what submit_url did), proc.waited (the id given to
\* wait_for_completion), proc.seen (the status wait_for_completion returned),
\* proc.fetched (transcript and summary were obtained), proc.result.
FreshProc ==
    [pc |-> "idle", url |-> "none", calls |-> 0,
     jobs |-> [u \in ProcUrls |-> NoJob], created |-> [u \in ProcUrls |-> 0],
     answer |-> "none", waited |-> "none", seen |-> NoJob, fetched |-> FALSE,
     result |-> [success |-> FALSE, error |-> "None"]]

\* _fetch_page before its call.  fetch.pc: "idle", "request" (inside the
\* for loop, before client.get), "returned", "raised".  fetch.attempt: the
\* loop variable; fetch.result: "None" or "text" (response.text).
\* History: fetch.outcomes, what each client.get / raise_for_status did.
FreshFetch ==
    [pc |-> "idle", max_retries |-> 0, attempt |-> 0, outcomes |-> <<>>,
     result |-> "none"]

\* The Jobs of the audio cache's model.
CacheJobs == {"a", "b"}

\* Before any download.  cache.now: the clock in days; cache.rows[j]: the
\* Job's status ("none": no row), its columns audio_path ("None" or
\* "path") and audio_cached_until (-1: NULL); cache.file[j]: the audio file
\* of the Job exists in the cache directory.
\* History: cache.last_cleanup, the time of the last cleanup run (-1: none).
FreshCache ==
    [now |-> 0, last_cleanup |-> -1,
     rows |-> [j \in CacheJobs |->
                 [status |-> "none", audio_path |-> "None", audio_cached_until |-> -1]],
     file |-> [j \in CacheJobs |-> FALSE]]

ImapMsgs == 1..MaxImapMsgs

\* The IMAP session before the first poll.  imap.folder[f]: the messages of
\* source folder f in sequence-number order; imap.selected: the folder the
\* connection has selected; imap.seen, imap.deleted: the messages flagged
\* \Seen and \Deleted; imap.pc: the poller's position ("inbox", "episodes",
\* "gather"); imap.task[m]: the task of message m, with the msg_num and the
\* folder it was fetched from, and its position in move_to_folder.
\* History: imap.arrived (messages delivered), imap.copied and imap.flagged
\* (pairs <<m, x>>: the task of m copied / flagged message x).
FreshImap ==
    [folder |-> [f \in {"inbox", "episodes"} |-> <<>>],
     selected |-> "none", seen |-> {}, deleted |-> {}, pc |-> "inbox",
     task |-> [m \in ImapMsgs |-> [st |-> "none", msg_num |-> 0, from |-> "none"]],
     arrived |-> 0, copied |-> {}, flagged |-> {}]

\* No message is being processed and process_url has not been called.
MessageInit ==
    /\ TagInit
    /\ msg = FreshMessage
    /\ proc = FreshProc
    /\ fetch = FreshFetch
    /\ cache = FreshCache
    /\ imap = FreshImap

Init ==
    FrontendInit /\ JobQueueInit /\ DownloaderInit /\ EmailerInit /\ MessageInit

----------------------------------------------------------------------------
(* Environment: outcomes of the collaborators *)

\* Downloader.download / TranscriberClient.submit_job / save_transcription:
\* TRUE = success.  URLs in good never fail.
Outcomes(u) == IF u \in good THEN {TRUE} ELSE {TRUE, FALSE}

\* str(e) of the exception a failing transcription raises; it is the error
\* stored on the queue entry and served by GET /jobs/{job_id}.
ExcMessage == "transcribe raised"

\* One check_status inside wait_for_completion: the entry is still
\* queued/processing ("sleep"), completed, failed, or the check itself
\* failed (404, HTTP error, unknown status).
PollOutcomes(u, polls) ==
    IF u \in good
    THEN {"completed"} \cup (IF polls + 1 < MaxPolls THEN {"sleep"} ELSE {})
    ELSE {"sleep", "completed", "failed", "error"}

----------------------------------------------------------------------------
(* POST /api/transcribe (frontend/api/routes.py) *)

\* existing = query(Transcription).filter_by(source_url=url).first()
ExistingNever(d, u) == FALSE

Existing(d, u) == BySourceUrl(d, u) # {}

ExistingId(d, u) == (CHOOSE r \in BySourceUrl(d, u) : TRUE).id

\* The handler has no await: it runs to its return in one step of the loop.
transcribe_url(s, u) ==
    /\ CanTake(s)
    /\ loop = 0
    /\ LET p == parse_url(u)
           t == [task[s] EXCEPT !.kind = "route", !.url = u]
       IN  IF ~p.ok
           THEN /\ task' = [task EXCEPT ![s] = [t EXCEPT !.pc = "done", !.http = 400]]
                /\ db' = db
           ELSE IF Existing(db, u)
           THEN /\ task' = [task EXCEPT ![s] =
                              [t EXCEPT !.pc = "done", !.http = 409,
                                        !.http_id = ExistingId(db, u)]]
                /\ db' = db
           ELSE IF IntegrityError(db, _create_job_record(p.id, u))
           THEN /\ task' = [task EXCEPT ![s] = [t EXCEPT !.pc = "done", !.http = 500]]
                /\ db' = db
           ELSE /\ db' = db \cup {_create_job_record(p.id, u)}
                /\ task' = [task EXCEPT ![s] =
                              [t EXCEPT !.pc = "ready", !.http = 202,
                                        !.http_id = p.id]]
    /\ UNCHANGED <<loop, good, downloads>>
    /\ UNCHANGED <<qvars, dvars, evars, mvars>>

\* A caller other than the route awaits Orchestrator.process_url(url).
call_process_url(s, u) ==
    /\ CanTake(s)
    /\ loop = 0
    /\ task' = [task EXCEPT ![s] = [@ EXCEPT !.kind = "direct", !.url = u,
                                             !.pc = "ready"]]
    /\ UNCHANGED <<db, loop, good, downloads>>
    /\ UNCHANGED <<qvars, dvars, evars, mvars>>

----------------------------------------------------------------------------
(* Orchestrator.process_url (frontend/services/orchestrator.py)            *)
(* One action per committed step; the coroutine keeps the event loop from  *)
(* its first step until it sleeps in wait_for_completion or returns.       *)

Tid(s) == parse_url(task[s].url).id

\* task' and loop' after slot s moves to pc, with result res / rid
Move(s, pc, res, rid) ==
    /\ task' = [task EXCEPT ![s] = [@ EXCEPT !.pc = pc, !.res = res, !.res_id = rid]]
    /\ loop' = IF pc \in {"done", "sleeping"} THEN 0 ELSE s

Goto(s, pc) == Move(s, pc, task[s].res, task[s].res_id)

\* process_url without the return after a failed download (mutant)
DownloadFailedFallsThrough == "downloaded"

\* lines 110-116: after _mark_failed the coroutine returns
PcAfterDownloadFailed == "done"

PU_Begin(s) ==
    /\ task[s].pc = "ready"
    /\ loop = 0
    /\ LET u == task[s].url
           p == parse_url(u)
       IN  IF ~p.ok
           THEN Move(s, "done", "exception", NoId) /\ db' = db
           ELSE IF Existing(db, u)
           THEN Move(s, "done", "duplicate", p.id) /\ db' = db
           ELSE IF IntegrityError(db, _create_job_record(p.id, u))
           THEN Move(s, "done", "exception", NoId) /\ db' = db
           ELSE /\ db' = db \cup {_create_job_record(p.id, u)}
                /\ task' = [task EXCEPT ![s] = [@ EXCEPT !.pc = "created",
                                                         !.created = TRUE]]
                /\ loop' = s
    /\ UNCHANGED <<good, downloads>>
    /\ UNCHANGED <<qvars, dvars, evars, mvars>>

PU_Downloading(s) ==
    /\ task[s].pc = "created" /\ loop = s
    /\ db' = _update_status(db, Tid(s), "downloading", 10)
    /\ Goto(s, "download")
    /\ UNCHANGED <<good, downloads>>
    /\ UNCHANGED <<qvars, dvars, evars, mvars>>

PU_Download(s) ==
    /\ task[s].pc = "download" /\ loop = s
    /\ downloads' = [downloads EXCEPT ![task[s].url] = @ + 1]
    /\ \E ok \in Outcomes(task[s].url) :
          IF ok
          THEN /\ db' = {IF r.id = Tid(s) THEN [r EXCEPT !.metadata = TRUE] ELSE r
                         : r \in db}
               /\ Goto(s, "downloaded")
          ELSE /\ db' = _mark_failed(db, Tid(s), "Download failed")
               /\ Move(s, PcAfterDownloadFailed, "failed", Tid(s))
    /\ UNCHANGED good
    /\ UNCHANGED <<qvars, dvars, evars, mvars>>

PU_Transcribing(s) ==
    /\ task[s].pc = "downloaded" /\ loop = s
    /\ db' = _update_status(db, Tid(s), "transcribing", 50)
    /\ Goto(s, "submit")
    /\ UNCHANGED <<good, downloads>>
    /\ UNCHANGED <<qvars, dvars, evars, mvars>>

PU_Submit(s) ==
    /\ task[s].pc = "submit" /\ loop = s
    /\ \E ok \in Outcomes(task[s].url) :
          IF ok
          THEN db' = db /\ Goto(s, "poll")
          ELSE /\ db' = _mark_failed(db, Tid(s), "Transcription failed")
               /\ Move(s, "done", "failed", Tid(s))
    /\ UNCHANGED <<good, downloads>>
    /\ UNCHANGED <<qvars, dvars, evars, mvars>>

\* wait_for_completion(job_id, poll_interval=5, max_wait=600): the ratio of
\* the two defaults is scaled down to MaxPolls.
poll_interval == 5

max_wait == MaxPolls * poll_interval

\* elapsed after n sleeps: "elapsed += poll_interval" n times from 0
Elapsed(n) == n * poll_interval

\* a loop test that lets one more round through (mutant of WhileElapsed)
WhileElapsedAtMost(elapsed) == elapsed <= max_wait

\* while elapsed < max_wait
WhileElapsed(elapsed) == elapsed < max_wait

\* error = f"Job {job_id} did not complete within {max_wait} seconds"
TimeoutMessage == "did not complete within max_wait seconds"

\* status == "failed": error = f"Job {job_id} failed".  check_status copies
\* only status and result from the response; the entry's error e is not read.
WaitFailedError(e) == "Job failed"

\* wait_for_completion: one check_status
PU_Poll(s) ==
    /\ task[s].pc = "poll" /\ loop = s
    /\ \E o \in PollOutcomes(task[s].url, task[s].polls) :
          CASE o = "sleep" ->
                 /\ db' = db
                 /\ task' = [task EXCEPT ![s] = [@ EXCEPT !.pc = "sleeping",
                                                          !.checks = @ + 1]]
                 /\ loop' = 0
            [] o = "completed" ->
                 /\ db' = db
                 /\ task' = [task EXCEPT ![s] = [@ EXCEPT !.pc = "complete90",
                                                          !.checks = @ + 1]]
                 /\ loop' = s
            [] o = "failed" ->
                 /\ db' = _mark_failed(db, Tid(s), WaitFailedError(ExcMessage))
                 /\ task' = [task EXCEPT ![s] =
                                [@ EXCEPT !.pc = "done", !.res = "failed",
                                          !.res_id = Tid(s), !.checks = @ + 1,
                                          !.entry_error = ExcMessage]]
                 /\ loop' = 0
            [] o = "error" ->
                 /\ db' = _mark_failed(db, Tid(s), "Status check failed")
                 /\ task' = [task EXCEPT ![s] =
                                [@ EXCEPT !.pc = "done", !.res = "failed",
                                          !.res_id = Tid(s), !.checks = @ + 1]]
                 /\ loop' = 0
    /\ UNCHANGED <<good, downloads>>
    /\ UNCHANGED <<qvars, dvars, evars, mvars>>

\* asyncio.sleep(poll_interval) returns; elapsed += poll_interval; the loop
\* condition elapsed < max_wait is tested again.
PU_Wake(s) ==
    /\ task[s].pc = "sleeping" /\ loop = 0
    /\ IF WhileElapsed(Elapsed(task[s].polls + 1))
       THEN /\ task' = [task EXCEPT ![s] = [@ EXCEPT !.pc = "poll", !.polls = @ + 1]]
            /\ loop' = s
            /\ db' = db
       ELSE /\ task' = [task EXCEPT ![s] = [@ EXCEPT !.pc = "done", !.polls = @ + 1,
                                                     !.res = "failed",
                                                     !.res_id = Tid(s)]]
            /\ loop' = 0
            /\ db' = _mark_failed(db, Tid(s), TimeoutMessage)
    /\ UNCHANGED <<good, downloads>>
    /\ UNCHANGED <<qvars, dvars, evars, mvars>>

PU_Completed90(s) ==
    /\ task[s].pc = "complete90" /\ loop = s
    /\ db' = _update_status(db, Tid(s), "completed", 90)
    /\ Goto(s, "save")
    /\ UNCHANGED <<good, downloads>>
    /\ UNCHANGED <<qvars, dvars, evars, mvars>>

\* _save_results may raise (storage error, missing result): the outer except
\* returns OrchestrationResult(success=False, error=str(e)).
PU_Save(s) ==
    /\ task[s].pc = "save" /\ loop = s
    /\ \E ok \in Outcomes(task[s].url) :
          IF ok
          THEN db' = _save_results(db, Tid(s)) /\ Goto(s, "final")
          ELSE db' = db /\ Move(s, "done", "exception", NoId)
    /\ UNCHANGED <<good, downloads>>
    /\ UNCHANGED <<qvars, dvars, evars, mvars>>

PU_Completed100(s) ==
    /\ task[s].pc = "final" /\ loop = s
    /\ db' = _update_status(db, Tid(s), "completed", 100)
    /\ Move(s, "done", "ok", Tid(s))
    /\ UNCHANGED <<good, downloads>>
    /\ UNCHANGED <<qvars, dvars, evars, mvars>>

process_url(s) ==
    \/ PU_Begin(s)
    \/ PU_Downloading(s)
    \/ PU_Download(s)
    \/ PU_Transcribing(s)
    \/ PU_Submit(s)
    \/ PU_Poll(s)
    \/ PU_Wake(s)
    \/ PU_Completed90(s)
    \/ PU_Save(s)
    \/ PU_Completed100(s)

Next ==
    \/ \E s \in Slots, u \in URLs : transcribe_url(s, u)
    \/ \E s \in Slots, u \in URLs : call_process_url(s, u)
    \/ \E s \in Slots : process_url(s)

Spec == Init /\ [][Next]_vars

\* The event loop runs every coroutine that is ready, and every sleep ends.
LiveSpec == Spec /\ \A s \in Slots : WF_vars(process_url(s))

----------------------------------------------------------------------------
(* Claims about the Job lifecycle *)

Terminal == {"completed", "failed"}

Successor(st) ==
    CASE st = "pending" -> "downloading"
      [] st = "downloading" -> "transcribing"
      [] st = "transcribing" -> "completed"
      [] OTHER -> "none"

\* C1: in every step, every Job's status either stays as it is, moves to the
\* next status of pending -> downloading -> transcribing -> completed, or
\* moves from a non-terminal status to failed; a completed or failed Job
\* keeps its status, and no Job record disappears.
C1_StatusMonotonic ==
    [][\A r \in db : \E q \in db' :
          /\ q.id = r.id
          /\ \/ q.status = r.status
             \/ r.status \notin Terminal /\ q.status = Successor(r.status)
             \/ r.status \notin Terminal /\ q.status = "failed"]_vars

\* C1 witness: one Job went all the way to completed, another one failed.
C1_Witness ==
    \E r, q \in db : r.status = "completed" /\ r.progress = 100 /\ q.status = "failed"

\* C2: every Job's progress is an integer in 0..100 at all times and no
\* step lowers it, the step that marks the Job failed included.
C2_ProgressMonotonic ==
    /\ [](\A r \in db : r.progress \in 0..100)
    /\ [][\A r \in db : \A q \in db' : q.id = r.id => q.progress >= r.progress]_vars

\* C2 witness: a Job that failed after some progress keeps that progress.
C2_Witness == \E r \in db : r.status = "failed" /\ r.progress = 50

\* C3: for every URL there is at most one Job record with that source_url,
\* the download pipeline has been started at most once for it, and every
\* finished submission that did not itself create the record of an existing
\* URL was answered with the id of the existing record (409 + existing_id
\* from the route, "URL already transcribed" + transcription_id from
\* process_url).
C3_DuplicateSubmission ==
    /\ \A u \in URLs : Cardinality(BySourceUrl(db, u)) <= 1
    /\ \A u \in URLs : downloads[u] <= 1
    /\ \A s \in Slots :
          (/\ task[s].kind = "route"
           /\ task[s].http \notin {0, 202}
           /\ BySourceUrl(db, task[s].url) # {})
          => /\ task[s].http = 409
             /\ \E r \in db : r.source_url = task[s].url /\ r.id = task[s].http_id
    /\ \A s \in Slots :
          (/\ task[s].pc = "done"
           /\ task[s].res # "none"
           /\ ~task[s].created
           /\ BySourceUrl(db, task[s].url) # {})
          => /\ task[s].res = "duplicate"
             /\ \E r \in db : r.source_url = task[s].url /\ r.id = task[s].res_id

\* C3 witness: while the first process_url of a URL is suspended in its wait,
\* a second submission of the same URL has been answered as a duplicate.
C3_Witness ==
    \E s, t \in Slots :
        /\ s # t
        /\ task[s].url = task[t].url
        /\ task[s].pc = "sleeping"
        /\ task[t].res = "duplicate" \/ task[t].http = 409

\* C4: once the background process_url of a URL accepted by POST
\* /api/transcribe (202) has returned, and the URL is one whose download,
\* transcription and save succeed, the Job is completed with progress 100
\* and a persisted transcript.
C4_AcceptedUrlCompletes ==
    \A s \in Slots :
        (/\ task[s].kind = "route"
         /\ task[s].http = 202
         /\ task[s].pc = "done"
         /\ task[s].url \in good)
        => \E r \in db : /\ r.source_url = task[s].url
                         /\ r.status = "completed"
                         /\ r.progress = 100
                         /\ r.transcript

\* C12: whenever process_url has returned success = false after it created
\* the Job record itself, that Job is failed with a non-empty error: no
\* error or exception path leaves it pending, downloading, transcribing or
\* completed.
C12_FailureMarksFailed ==
    \A s \in Slots :
        (/\ task[s].pc = "done"
         /\ task[s].created
         /\ task[s].res \in {"failed", "exception"})
        => \E r \in db : r.id = Tid(s) /\ r.status = "failed" /\ r.error # ""

CeilDiv(a, b) == (a + b - 1) \div b

TimedOut(s) == ~WhileElapsed(Elapsed(task[s].polls))

\* process_url is in wait_for_completion or in the steps that follow it.
Unreturned(s) ==
    task[s].pc \in {"poll", "sleeping", "complete90", "save", "final"}

\* C13: wait_for_completion makes at most ceil(max_wait / poll_interval)
\* status checks; a wait that ran out of time has marked the Job failed with
\* the timeout message and process_url has returned a failure result, not an
\* exception; and every wait ends: a process_url that polls or sleeps
\* eventually returns (it leaves the wait and the steps after it only by
\* returning, and eventually no process_url is in them).
C13_WaitTerminates ==
    /\ [](\A s \in Slots : task[s].checks <= CeilDiv(max_wait, poll_interval))
    /\ [](\A s \in Slots :
            TimedOut(s)
            => /\ task[s].pc = "done"
               /\ task[s].res = "failed"
               /\ \E r \in db : /\ r.id = Tid(s)
                                /\ r.status = "failed"
                                /\ r.error = TimeoutMessage)
    /\ [][\A s \in Slots :
             Unreturned(s) => (Unreturned(s)' \/ task'[s].pc = "done")]_vars
    /\ <>[](\A s \in Slots : ~Unreturned(s))

\* C13 witness: a wait has used up all its status checks and timed out.
C13_Witness ==
    \E s \in Slots :
        /\ TimedOut(s)
        /\ task[s].checks = CeilDiv(max_wait, poll_interval)
        /\ task[s].pc = "done"

\* C14: when the queue entry a Job waits for has failed with error e, the
\* Job is failed and the error stored on the Job equals e.
C14_QueueErrorPreserved ==
    \A s \in Slots :
        task[s].entry_error # "None"
        => \E r \in db : /\ r.id = Tid(s)
                         /\ r.status = "failed"
                         /\ r.error = task[s].entry_error

----------------------------------------------------------------------------
(* JobQueue (transcriber/core/queue.py)                                    *)

NoPosition == -1    \* get_queue_position's None

\* TranscriptionJob(job_id, ..., created_at=datetime.utcnow()) with the
\* model's defaults: status QUEUED, progress 0, result None, error None.
TranscriptionJob(t) ==
    [status |-> "queued", progress |-> 0, created_at |-> t,
     result |-> "None", error |-> "None"]

\* asyncio.Queue(maxsize): full() is never true for maxsize <= 0.
Full(q) == queue_size > 0 /\ Len(q) >= queue_size

\* A put that enqueues the id twice (mutant of PutNowait).
PutTwice(q, id) == Append(Append(q, id), id)

\* asyncio.Queue.put_nowait: append on the right.
PutNowait(q, id) == Append(q, id)

\* A get that takes the newest item (mutant of GetNowait).
GetNewest(q) == [item |-> q[Len(q)], rest |-> SubSeq(q, 1, Len(q) - 1)]

\* asyncio.Queue.get_nowait: popleft.
GetNowait(q) == [item |-> Head(q), rest |-> Tail(q)]

\* list(self.jobs.keys()): dict order is insertion order, which is the order
\* of the submit_job calls.
RECURSIVE KeysFrom(_, _)
KeysFrom(jb, i) ==
    IF i > MaxJobs THEN <<>>
    ELSE (IF i \in DOMAIN jb THEN <<i>> ELSE <<>>) \o KeysFrom(jb, i + 1)

\* the counting loop of get_queue_position
RECURSIVE CountQueuedBefore(_, _, _)
CountQueuedBefore(jb, keys, job) ==
    IF keys = <<>> THEN 0
    ELSE (IF /\ jb[Head(keys)].status = "queued"
             /\ jb[Head(keys)].created_at < job.created_at
          THEN 1 ELSE 0)
         + CountQueuedBefore(jb, Tail(keys), job)

get_queue_position(jb, id) ==
    IF id \notin DOMAIN jb \/ jb[id].status # "queued"
    THEN NoPosition
    ELSE CountQueuedBefore(jb, KeysFrom(jb, 1), jb[id])

\* JobQueue.start
start ==
    /\ worker \in {"none", "done"}
    /\ worker' = "waiting"
    /\ UNCHANGED <<jobs, queue, putters, ready, current_job_id, threads, nextJob,
                   now, accepted, started, outcome, everStopped>>
    /\ UNCHANGED <<fvars, dvars, evars, mvars>>

\* JobQueue.stop: the worker task is cancelled.  CancelledError is raised at
\* the await the worker is suspended in (queue.get, or run_in_executor inside
\* _process_job, whose "except Exception" does not catch it); the worker's
\* handler breaks out of the loop.  The executor thread cannot be cancelled.
stop ==
    /\ worker \in {"waiting", "transcribing"}
    /\ worker' = "done"
    /\ everStopped' = TRUE
    /\ UNCHANGED <<jobs, queue, putters, ready, current_job_id, threads, nextJob,
                   now, accepted, started, outcome>>
    /\ UNCHANGED <<fvars, dvars, evars, mvars>>

\* JobQueue.submit_job up to the return or to the suspension inside
\* "await self.queue.put(job_id)": put never raises QueueFull, it waits.
\* datetime.utcnow() reads the wall clock: the reading of the previous call
\* again, or a later one.
submit_job ==
    /\ nextJob < MaxJobs
    /\ \E t \in {now, now + 1} :
          /\ t <= MaxClock
          /\ now' = t
          /\ LET id == nextJob + 1
             IN  /\ nextJob' = id
                 /\ jobs' = jobs @@ (id :> TranscriptionJob(t))
                 /\ IF Full(queue)
                    THEN /\ putters' = Append(putters, id)
                         /\ UNCHANGED <<queue, accepted>>
                    ELSE /\ queue' = PutNowait(queue, id)
                         /\ accepted' = Append(accepted, id)
                         /\ UNCHANGED putters
    /\ UNCHANGED <<ready, worker, current_job_id, threads, started,
                   outcome, everStopped>>
    /\ UNCHANGED <<fvars, dvars, evars, mvars>>

\* A woken put runs again: "while self.full()" is tested anew.
put_resume ==
    /\ ready # <<>>
    /\ LET id == Head(ready)
       IN  /\ ready' = Tail(ready)
           /\ IF Full(queue)
              THEN /\ putters' = Append(putters, id)
                   /\ UNCHANGED <<queue, accepted>>
              ELSE /\ queue' = PutNowait(queue, id)
                   /\ accepted' = Append(accepted, id)
                   /\ UNCHANGED putters
    /\ UNCHANGED <<jobs, worker, current_job_id, threads, nextJob, now,                    started, outcome, everStopped>>
    /\ UNCHANGED <<fvars, dvars, evars, mvars>>

\* JobQueue._worker from "await self.queue.get()" to the suspension in
\* run_in_executor inside _process_job: the id is taken (get_nowait wakes the
\* oldest suspended put), the job is set to processing and the transcription
\* is handed to the executor.
worker_get ==
    /\ worker = "waiting"
    /\ queue # <<>>
    /\ LET g == GetNowait(queue)
       IN  /\ queue' = g.rest
           /\ IF putters # <<>>
              THEN ready' = Append(ready, Head(putters)) /\ putters' = Tail(putters)
              ELSE UNCHANGED <<ready, putters>>
           /\ IF g.item \notin DOMAIN jobs
              THEN UNCHANGED <<jobs, worker, current_job_id, threads, started>>
              ELSE /\ current_job_id' = g.item
                   /\ jobs' = [jobs EXCEPT ![g.item].status = "processing"]
                   /\ threads' = threads \cup {g.item}
                   /\ started' = Append(started, g.item)
                   /\ worker' = "transcribing"
    /\ UNCHANGED <<nextJob, now, accepted, outcome, everStopped>>
    /\ UNCHANGED <<fvars, dvars, evars, mvars>>

\* The worker dies when a transcription raises (mutant of WorkerAfterJob).
WorkerDiesOnFailure(o) == IF o = "returned" THEN "waiting" ELSE "done"

\* _process_job catches every Exception: the worker loop goes on.
WorkerAfterJob(o) == "waiting"

\* A failure handler that also stores a result (mutant of JobAfter).
JobAfterFailureKeepsResult(job, o) ==
    IF o = "returned"
    THEN [job EXCEPT !.status = "completed", !.result = "transcript",
                     !.progress = 100]
    ELSE [job EXCEPT !.status = "failed", !.error = ExcMessage,
                     !.result = "transcript"]

\* _process_job after the executor call
JobAfter(job, o) ==
    IF o = "returned"
    THEN [job EXCEPT !.status = "completed", !.result = "transcript",
                     !.progress = 100]
    ELSE [job EXCEPT !.status = "failed", !.error = ExcMessage]

\* whisper_model.transcribe of job j returns or raises in its executor
\* thread.  The worker coroutine that awaits it, if it was not cancelled,
\* resumes: _process_job records the outcome, _worker clears current_job_id.
\* The outcome of a call whose awaiting worker was cancelled is dropped.
transcribe_ends(j, o) ==
    /\ j \in threads
    /\ threads' = threads \ {j}
    /\ IF worker = "transcribing" /\ current_job_id = j
       THEN /\ jobs' = [jobs EXCEPT ![j] = JobAfter(@, o)]
            /\ outcome' = [outcome EXCEPT ![j] = o]
            /\ current_job_id' = 0
            /\ worker' = WorkerAfterJob(o)
       ELSE UNCHANGED <<jobs, outcome, current_job_id, worker>>
    /\ UNCHANGED <<queue, putters, ready, nextJob, now, accepted, started,
                   everStopped>>
    /\ UNCHANGED <<fvars, dvars, evars, mvars>>

QueueInit ==
    /\ db = {}
    /\ task = [s \in Slots |-> FreshTask]
    /\ loop = 0
    /\ good = {}
    /\ downloads = [u \in URLs |-> 0]
    /\ JobQueueInit
    /\ DownloaderInit
    /\ EmailerInit
    /\ MessageInit

QueueNext ==
    \/ start
    \/ stop
    \/ submit_job
    \/ put_resume
    \/ worker_get
    \/ \E j \in JobIds, o \in {"returned", "raised"} : transcribe_ends(j, o)

QueueSpec == QueueInit /\ [][QueueNext]_vars

\* The event loop runs every ready coroutine, and every transcription call
\* returns or raises.
QueueLiveSpec ==
    /\ QueueSpec
    /\ WF_vars(worker_get)
    /\ WF_vars(put_resume)
    /\ WF_vars(\E j \in JobIds, o \in {"returned", "raised"} : transcribe_ends(j, o))

----------------------------------------------------------------------------
(* Claims about the JobQueue *)

Range(f) == {f[i] : i \in DOMAIN f}

Occurrences(f, x) == Cardinality({i \in DOMAIN f : f[i] = x})

QueueTerminal == {"completed", "failed"}

\* C5: the entries that have entered processing are, in order, exactly the
\* first entries in the order in which submit_job returned them: no entry
\* starts before one that was accepted earlier.
C5_FifoStartOrder ==
    /\ Len(started) <= Len(accepted)
    /\ started = SubSeq(accepted, 1, Len(started))

\* C5 witness: a put that was suspended on the full queue was overtaken by a
\* later submit_job, and three entries have started.
C5_Witness ==
    /\ Len(started) >= 3
    /\ \E i, k \in DOMAIN accepted : i < k /\ accepted[i] > accepted[k]

\* C6: at most one entry is in status processing and at most one
\* transcription runs at any time.
C6_SingleProcessing ==
    /\ Cardinality({j \in DOMAIN jobs : jobs[j].status = "processing"}) <= 1
    /\ Cardinality(threads) <= 1

\* C7: a submit_job on a full queue fails with QueueFull: no submit_job is
\* ever suspended inside put, and the job table holds accepted entries only,
\* each accepted exactly once.
C7_QueueFullRejects ==
    /\ putters = <<>> /\ ready = <<>>
    /\ \A j \in DOMAIN jobs : Occurrences(accepted, j) = 1

\* C8: get_queue_position is None for an unknown or non-queued entry,
\* otherwise the number of queued entries submitted strictly earlier; of two
\* queued entries the later submitted one has position >= 1.
C8_QueuePosition ==
    /\ \A j \in JobIds :
          get_queue_position(jobs, j) =
              IF j \notin DOMAIN jobs \/ jobs[j].status # "queued"
              THEN NoPosition
              ELSE Cardinality({i \in DOMAIN jobs :
                                   jobs[i].status = "queued" /\ i < j})
    /\ \A i, j \in DOMAIN jobs :
          (i < j /\ jobs[i].status = "queued" /\ jobs[j].status = "queued")
          => get_queue_position(jobs, j) >= 1

\* C9: every entry enters processing at most once, and only entries that
\* entered processing are handed to the executor or become terminal; in
\* every step a processing entry stays processing or becomes terminal, a
\* terminal entry keeps its status, and nothing turns back into queued.
C9_ConsumedOnce ==
    /\ [](\A j \in JobIds : Occurrences(started, j) <= 1)
    /\ [](\A j \in threads : j \in Range(started) /\ jobs[j].status = "processing")
    /\ [](\A j \in DOMAIN jobs :
             jobs[j].status # "queued" => j \in Range(started))
    /\ [][\A j \in DOMAIN jobs :
             /\ j \in DOMAIN jobs'
             /\ jobs[j].status \in QueueTerminal => jobs'[j].status = jobs[j].status
             /\ jobs[j].status = "processing"
                => jobs'[j].status \in {"processing"} \cup QueueTerminal
             /\ jobs[j].status = "queued"
                => jobs'[j].status \in {"queued", "processing"}]_vars

\* C9 witness: one entry completed, one failed, a third one is processing.
C9_Witness ==
    \E i, j, k \in DOMAIN jobs :
        /\ jobs[i].status = "completed"
        /\ jobs[j].status = "failed"
        /\ jobs[k].status = "processing"

Running == worker \in {"waiting", "transcribing"}

\* C10: from any state in which the worker runs, unless stop() cancels it,
\* a state is reached in which every accepted entry is completed or failed
\* (entries accepted after a failed one included); an entry whose
\* transcription raised is failed with the exception's message.
C10_WorkerDrains ==
    /\ Running
       ~> (everStopped \/ \A j \in Range(accepted) : jobs[j].status \in QueueTerminal)
    /\ [](~everStopped =>
            \A j \in DOMAIN jobs :
               /\ outcome[j] = "raised"
                  => jobs[j].status = "failed" /\ jobs[j].error = ExcMessage
               /\ jobs[j].status = "failed" => outcome[j] = "raised")

\* C10 witness: an entry failed and a later accepted entry completed, with
\* the worker never stopped.
C10_Witness ==
    /\ ~everStopped
    /\ \E i, j \in DOMAIN jobs :
          /\ i < j
          /\ jobs[i].status = "failed" /\ jobs[i].error = ExcMessage
          /\ jobs[j].status = "completed"

\* C11: in every reachable state of the queue, a completed entry has a
\* result and progress 100; an entry has an error only if it is failed, and a
\* failed entry has an error and no result; queued and processing entries
\* have neither; progress is within 0..100.
C11_EntryInvariant ==
    \A j \in DOMAIN jobs :
        /\ jobs[j].status = "completed"
           => jobs[j].result # "None" /\ jobs[j].progress = 100
        /\ jobs[j].error # "None" => jobs[j].status = "failed"
        /\ jobs[j].status = "failed"
           => jobs[j].error # "None" /\ jobs[j].result = "None"
        /\ jobs[j].status \in {"queued", "processing"}
           => jobs[j].result = "None" /\ jobs[j].error = "None"
        /\ jobs[j].progress \in 0..100

\* C11 witness: queued, processing, completed and failed entries exist at
\* the same time.
C11_Witness ==
    \E i, j, k, l \in DOMAIN jobs :
        /\ jobs[i].status = "completed"
        /\ jobs[j].status = "failed"
        /\ jobs[k].status = "processing"
        /\ jobs[l].status = "queued"

----------------------------------------------------------------------------
(* Downloader (frontend/services/downloader.py), called by process_url     *)

max_audio_size_mb == 500    \* settings.max_audio_size_mb

\* Sizes in MB around the limit; an estimate of 0 stands for "no estimate":
\* "filesize = info.get('filesize') or info.get('filesize_approx')" is falsy.
Estimates == {0, max_audio_size_mb, max_audio_size_mb + 1}

DiskFiles == {FileMissing, max_audio_size_mb, max_audio_size_mb + 1}

\* str(e) of what yt-dlp raises
ErrUnable == "ERROR: Unable to extract episode data"
ErrOther == "ERROR: HTTP Error 403: Forbidden"

Errors == {ErrUnable, ErrOther}

\* "Unable to extract" in error_str
HasSignature(error_str) == error_str = ErrUnable

\* "podcasts.apple.com" in url.lower()
_is_apple_podcasts_url(u) == u.kind = "apple"

DownloadUrls == {UrlApple, UrlAudio, UrlBad}

\* A handler that falls back on any error of an Apple URL (mutant of
\* UseFallback).
UseFallbackAnyError(u, error_str) == _is_apple_podcasts_url(u)

\* line 121: the condition of the fallback
UseFallback(u, error_str) == _is_apple_podcasts_url(u) /\ HasSignature(error_str)

\* if size_mb > settings.max_audio_size_mb (estimate, line 69)
EstimateTooLarge(filesize) == filesize # 0 /\ filesize > max_audio_size_mb

\* if file_size_mb > settings.max_audio_size_mb (primary path, line 94)
PrimaryTooLarge(size) == size > max_audio_size_mb

\* A fallback that trusts the transfer (mutant of FallbackTooLarge).
FallbackNeverTooLarge(size) == FALSE

\* if file_size_mb > settings.max_audio_size_mb (fallback, line 186)
FallbackTooLarge(size) == size > max_audio_size_mb

DTid == parse_url(dl.url).id

\* process_url from its entry to the call of self.downloader.download:
\* parse_url, duplicate check, _create_job_record, _update_status(10).
D_Call(u) ==
    /\ dl.pc \in {"idle", "returned"}
    /\ dl.calls < MaxCalls
    /\ LET p == parse_url(u)
           c == [FreshDownload EXCEPT !.url = u, !.calls = dl.calls + 1]
       IN  IF ~p.ok \/ Existing(db, u)
              \/ IntegrityError(db, _create_job_record(p.id, u))
           THEN /\ dl' = [c EXCEPT !.pc = "returned"]
                /\ db' = db
           ELSE /\ dl' = [c EXCEPT !.pc = "info", !.created = TRUE]
                /\ db' = _update_status(db \cup {_create_job_record(p.id, u)},
                                        p.id, "downloading", 10)
    /\ UNCHANGED <<task, loop, good, downloads>>
    /\ UNCHANGED <<qvars, evars, mvars>>

\* The "except Exception" of download (lines 117-129)
D_Except(d, error_str) ==
    IF UseFallback(d.url, error_str)
    THEN [d EXCEPT !.raised = error_str, !.pc = "scrape",
                   !.fallbacks = @ + 1]
    ELSE [d EXCEPT !.raised = error_str, !.pc = "result", !.result = "fail"]

\* info = ydl.extract_info(url, download=False) and the estimate check
D_Info ==
    /\ dl.pc = "info"
    /\ \/ \E e \in Errors : dl' = D_Except(dl, e)
       \/ \E est \in Estimates :
             dl' = IF EstimateTooLarge(est)
                   THEN [dl EXCEPT !.est = est, !.pc = "result", !.result = "fail"]
                   ELSE [dl EXCEPT !.est = est, !.pc = "transfer"]
    /\ UNCHANGED <<db, task, loop, good, downloads>>
    /\ UNCHANGED <<qvars, evars, mvars>>

\* info = ydl.extract_info(url, download=True): raises, or leaves whatever
\* the transfer wrote on disk.
D_Transfer ==
    /\ dl.pc = "transfer"
    /\ \/ \E e \in Errors :
             dl' = D_Except([dl EXCEPT !.transfers = @ + 1], e)
       \/ \E f \in DiskFiles :
             dl' = [dl EXCEPT !.transfers = @ + 1, !.file = f, !.pc = "verify"]
    /\ UNCHANGED <<db, task, loop, good, downloads>>
    /\ UNCHANGED <<qvars, evars, mvars>>

\* _find_audio_file and the size check on disk, primary path (lines 84-115)
D_Verify ==
    /\ dl.pc = "verify"
    /\ dl' = IF dl.file = FileMissing
             THEN [dl EXCEPT !.pc = "result", !.result = "fail", !.path = "primary"]
             ELSE IF PrimaryTooLarge(dl.file)
             THEN [dl EXCEPT !.pc = "result", !.result = "fail", !.path = "primary",
                             !.found = dl.file, !.file = FileMissing]
             ELSE [dl EXCEPT !.pc = "result", !.result = "ok", !.path = "primary",
                             !.found = dl.file]
    /\ UNCHANGED <<db, task, loop, good, downloads>>
    /\ UNCHANGED <<qvars, evars, mvars>>

\* _download_apple_podcasts_fallback: scraper.extract_audio_url raises,
\* finds nothing, or finds the audio URL
D_Scrape ==
    /\ dl.pc = "scrape"
    /\ \E o \in {"raise", "none", "url"} :
          dl' = IF o = "url"
                THEN [dl EXCEPT !.pc = "fb_transfer"]
                ELSE [dl EXCEPT !.pc = "result", !.result = "fail"]
    /\ UNCHANGED <<db, task, loop, good, downloads>>
    /\ UNCHANGED <<qvars, evars, mvars>>

\* the fallback's ydl.extract_info(audio_url, download=True)
D_FbTransfer ==
    /\ dl.pc = "fb_transfer"
    /\ \/ dl' = [dl EXCEPT !.transfers = @ + 1, !.pc = "result", !.result = "fail"]
       \/ \E f \in DiskFiles :
             dl' = [dl EXCEPT !.transfers = @ + 1, !.file = f, !.pc = "fb_verify"]
    /\ UNCHANGED <<db, task, loop, good, downloads>>
    /\ UNCHANGED <<qvars, evars, mvars>>

\* _find_audio_file and the size check of the fallback (lines 176-198)
D_FbVerify ==
    /\ dl.pc = "fb_verify"
    /\ dl' = IF dl.file = FileMissing
             THEN [dl EXCEPT !.pc = "result", !.result = "fail", !.path = "fallback"]
             ELSE IF FallbackTooLarge(dl.file)
             THEN [dl EXCEPT !.pc = "result", !.result = "fail", !.path = "fallback",
                             !.found = dl.file, !.file = FileMissing]
             ELSE [dl EXCEPT !.pc = "result", !.result = "ok", !.path = "fallback",
                             !.found = dl.file]
    /\ UNCHANGED <<db, task, loop, good, downloads>>
    /\ UNCHANGED <<qvars, evars, mvars>>

\* process_url after download returned (lines 110-119): _mark_failed and
\* return, or _update_metadata and on to the transcriber.
D_Result ==
    /\ dl.pc = "result"
    /\ dl' = [dl EXCEPT !.pc = "returned"]
    /\ db' = IF dl.result = "fail"
             THEN _mark_failed(db, DTid, "Download failed")
             ELSE {IF r.id = DTid THEN [r EXCEPT !.metadata = TRUE] ELSE r : r \in db}
    /\ UNCHANGED <<task, loop, good, downloads>>
    /\ UNCHANGED <<qvars, evars, mvars>>

DownloadInit == QueueInit

DownloadNext ==
    \/ \E u \in DownloadUrls : D_Call(u)
    \/ D_Info
    \/ D_Transfer
    \/ D_Verify
    \/ D_Scrape
    \/ D_FbTransfer
    \/ D_FbVerify
    \/ D_Result

DownloadSpec == DownloadInit /\ [][DownloadNext]_vars

----------------------------------------------------------------------------
(* Claims about the Downloader *)

\* C15: on the primary path and on the fallback path, with or without a
\* size estimate, a file found on disk that is larger than max_audio_size_mb
\* has been deleted and the download's result is a failure.
C15_OversizeFileDeleted ==
    dl.found > max_audio_size_mb
    => dl.file = FileMissing /\ dl.result = "fail" /\ dl.path # "none"

\* C15 witness: the fallback, entered without any estimate, found an
\* oversized file.
C15_Witness ==
    /\ dl.path = "fallback"
    /\ dl.est = 0
    /\ dl.found > max_audio_size_mb
    /\ dl.result = "fail"

\* C16: a submission whose URL is invalid, or whose declared size estimate
\* exceeds the maximum, creates no Job record, transfers nothing and is not
\* retried.
C16_RejectedWithoutJob ==
    (~parse_url(dl.url).ok \/ EstimateTooLarge(dl.est))
    => /\ ~dl.created
       /\ BySourceUrl(db, dl.url) = {}
       /\ dl.transfers = 0

\* C17: the fallback has been invoked in a download call if and only if the
\* URL is an Apple Podcasts URL and the primary path raised an error whose
\* text contains "Unable to extract"; it is invoked at most once per call.
C17_FallbackOnlyOnSignature ==
    /\ dl.fallbacks <= 1
    /\ dl.fallbacks = 1
       <=> (_is_apple_podcasts_url(dl.url) /\ HasSignature(dl.raised))

\* C17 witness: the fallback ran for an Apple URL and succeeded.
C17_Witness ==
    /\ dl.fallbacks = 1
    /\ dl.path = "fallback"
    /\ dl.result = "ok"
    /\ dl.pc = "returned"

----------------------------------------------------------------------------
(* EmailerService (emailer/main.py): the poll loop, the per-message tasks  *)
(* and the shutdown event, all on one asyncio event loop.                  *)

\* the unseen messages of a folder, in message-number order
RECURSIVE UnseenFrom(_, _, _)
UnseenFrom(mb, folder, m) ==
    IF m > MaxMsgs THEN <<>>
    ELSE (IF mb[m].folder = folder /\ mb[m].flag = "unseen" THEN <<m>> ELSE <<>>)
         \o UnseenFrom(mb, folder, m + 1)

\* k more messages arrive in folder
Arrive(mb, folder, k) ==
    [m \in Msgs |-> IF m > svc.arrived /\ m <= svc.arrived + k
                    THEN [folder |-> folder, flag |-> "unseen"]
                    ELSE mb[m]]

\* A semaphore that never blocks (mutant of CanAcquire).
AcquireUnlocked(value) == TRUE

\* asyncio.Semaphore.acquire proceeds without waiting while _value > 0
CanAcquire(value) == value > 0

\* "if tasks: await asyncio.gather(*tasks, return_exceptions=True)" returns
Gathered(tasks) == \A m \in tasks : mtask[m].st = "finished"

InFlight == {m \in Msgs : mtask[m].st \in {"created", "inside"}}

\* A handler that lets the exception escape _poll_and_process: start()'s
\* finally clause runs (mutant of PcAfterPollError).
PollErrorEscapes == "disconnecting"

\* "except Exception as e: logger.error(...)": _poll_and_process returns
\* normally and start() goes on to the inter-tick wait.
PcAfterPollError == "idle"

\* ImapClient.reconnect(): logout, then a new connection; the values
\* self._client can have afterwards (connected or None).
reconnect == {TRUE, FALSE}

\* The handler of the outer except: when is_connection_error(e) a reconnect
\* is tried and its own failure is logged; the connection states it can
\* leave behind.
AfterPollError(connected) == {connected} \cup reconnect

\* mark_seen that stores no flag (mutant of FlagAfterMarkSeen).
MarkSeenStoresNothing == "unseen"

\* mark_seen: STORE msg_num +FLAGS \Seen
FlagAfterMarkSeen == "seen"

\* asyncio.create_task(...) for message m in the current tick
CreateTask(m) ==
    [st |-> "created", tick |-> svc.tick, n |-> mtask[m].n + 1]

\* EmailerService.start up to the first loop test: the event and the
\* semaphore are created, the mailbox is connected.
E_Start ==
    /\ svc.pc = "new"
    /\ svc' = [svc EXCEPT !.pc = "top", !.connected = TRUE]
    /\ sem' = max_concurrent_jobs
    /\ UNCHANGED <<mbox, mtask>>
    /\ UNCHANGED <<fvars, qvars, dvars, mvars>>

\* EmailerService.stop: self._shutdown_event.set()
E_Stop ==
    /\ svc.pc \notin {"new", "returned", "exited"}
    /\ ~svc.shutdown
    /\ svc' = [svc EXCEPT !.shutdown = TRUE, !.stop_tick = svc.tick]
    /\ UNCHANGED <<mbox, mtask, sem>>
    /\ UNCHANGED <<fvars, qvars, dvars, mvars>>

\* "while not self._shutdown_event.is_set()": the next tick begins, or the
\* finally clause starts "await self.imap.disconnect()".
E_LoopTest ==
    /\ svc.pc = "top"
    /\ svc.shutdown \/ svc.tick < MaxTicks
    /\ svc' = IF svc.shutdown
              THEN [svc EXCEPT !.pc = "disconnecting"]
              ELSE [svc EXCEPT !.pc = "fetch_inbox", !.tick = @ + 1,
                               !.tasks = {}, !.todo = <<>>]
    /\ UNCHANGED <<mbox, mtask, sem>>
    /\ UNCHANGED <<fvars, qvars, dvars, mvars>>

\* emails = await self.imap.fetch_unseen(inbox): raises (outer except, the
\* tick returns), or returns the unseen messages of the folder.
E_FetchInbox ==
    /\ svc.pc = "fetch_inbox"
    /\ \/ /\ \E c \in AfterPollError(svc.connected) :
                svc' = [svc EXCEPT !.pc = PcAfterPollError, !.failed_tick = svc.tick,
                                   !.connected = c]
          /\ mbox' = mbox
       \/ \E k \in 0..(MaxMsgs - svc.arrived) :
             LET mb == Arrive(mbox, "inbox", k)
                 emails == UnseenFrom(mb, "inbox", 1)
             IN  /\ svc.connected
                 /\ mbox' = mb
                 /\ svc' = [svc EXCEPT !.arrived = @ + k, !.todo = emails,
                                       !.pc = IF emails = <<>>
                                              THEN "fetch_episodes"
                                              ELSE "mark_inbox"]
    /\ UNCHANGED <<mtask, sem>>
    /\ UNCHANGED <<fvars, qvars, dvars, mvars>>

\* One round of the inbox loop: "await self.imap.mark_seen(...)" raises
\* (outer except: gather is skipped, the tasks created so far are left
\* running and the tick returns), or the task is created and appended.
E_MarkInbox ==
    /\ svc.pc = "mark_inbox"
    /\ LET m == Head(svc.todo)
       IN  \/ /\ \E c \in AfterPollError(svc.connected) :
                    svc' = [svc EXCEPT !.pc = PcAfterPollError, !.todo = <<>>,
                                       !.tasks = {}, !.failed_tick = svc.tick,
                                       !.connected = c]
              /\ UNCHANGED <<mbox, mtask>>
           \/ /\ svc.connected
              /\ mbox' = [mbox EXCEPT ![m].flag = FlagAfterMarkSeen]
              /\ mtask' = [mtask EXCEPT ![m] = CreateTask(m)]
              /\ svc' = [svc EXCEPT !.todo = Tail(@), !.tasks = @ \cup {m},
                                    !.pc = IF Tail(svc.todo) = <<>>
                                           THEN "fetch_episodes"
                                           ELSE "mark_inbox"]
    /\ UNCHANGED sem
    /\ UNCHANGED <<fvars, qvars, dvars, mvars>>

\* es_emails = await self.imap.fetch_unseen(episode sources): an exception
\* is caught by the inner except and the tick goes on to gather.
E_FetchEpisodes ==
    /\ svc.pc = "fetch_episodes"
    /\ \/ /\ svc' = [svc EXCEPT !.pc = "gather", !.failed_tick = svc.tick]
          /\ mbox' = mbox
       \/ \E k \in 0..(MaxMsgs - svc.arrived) :
             LET mb == Arrive(mbox, "episodes", k)
                 emails == UnseenFrom(mb, "episodes", 1)
             IN  /\ svc.connected
                 /\ mbox' = mb
                 /\ svc' = [svc EXCEPT !.arrived = @ + k, !.todo = emails,
                                       !.pc = IF emails = <<>>
                                              THEN "gather"
                                              ELSE "mark_episodes"]
    /\ UNCHANGED <<mtask, sem>>
    /\ UNCHANGED <<fvars, qvars, dvars, mvars>>

\* One round of the episode-sources loop; mark_seen raising ends the loop
\* (inner except) and the tick goes on to gather.
E_MarkEpisodes ==
    /\ svc.pc = "mark_episodes"
    /\ LET m == Head(svc.todo)
       IN  \/ /\ svc' = [svc EXCEPT !.pc = "gather", !.todo = <<>>,
                                    !.failed_tick = svc.tick]
              /\ UNCHANGED <<mbox, mtask>>
           \/ /\ svc.connected
              /\ mbox' = [mbox EXCEPT ![m].flag = FlagAfterMarkSeen]
              /\ mtask' = [mtask EXCEPT ![m] = CreateTask(m)]
              /\ svc' = [svc EXCEPT !.todo = Tail(@), !.tasks = @ \cup {m},
                                    !.pc = IF Tail(svc.todo) = <<>>
                                           THEN "gather"
                                           ELSE "mark_episodes"]
    /\ UNCHANGED sem
    /\ UNCHANGED <<fvars, qvars, dvars, mvars>>

\* gather returns once every task of the list is done; _poll_and_process
\* returns and start() enters wait_for(self._shutdown_event.wait(), timeout).
E_Gather ==
    /\ svc.pc = "gather"
    /\ Gathered(svc.tasks)
    /\ svc' = [svc EXCEPT !.pc = "idle", !.tasks = {}]
    /\ UNCHANGED <<mbox, mtask, sem>>
    /\ UNCHANGED <<fvars, qvars, dvars, mvars>>

\* wait_for returns: the event was set, or the timeout expired.
E_IdleEnds ==
    /\ svc.pc = "idle"
    /\ svc' = [svc EXCEPT !.pc = "top"]
    /\ UNCHANGED <<mbox, mtask, sem>>
    /\ UNCHANGED <<fvars, qvars, dvars, mvars>>

\* imap.disconnect() has logged out; start() returns.
E_Disconnected ==
    /\ svc.pc = "disconnecting"
    /\ svc' = [svc EXCEPT !.pc = "returned", !.connected = FALSE]
    /\ UNCHANGED <<mbox, mtask, sem>>
    /\ UNCHANGED <<fvars, qvars, dvars, mvars>>

\* main() returns and asyncio.run cancels the tasks that are still pending.
E_RunExit ==
    /\ svc.pc = "returned"
    /\ svc' = [svc EXCEPT !.pc = "exited"]
    /\ mtask' = [m \in Msgs |-> IF m \in InFlight
                                THEN [mtask[m] EXCEPT !.st = "cancelled"]
                                ELSE mtask[m]]
    /\ UNCHANGED <<mbox, sem>>
    /\ UNCHANGED <<fvars, qvars, dvars, mvars>>

\* _process_email_with_semaphore / _process_episode_source_with_semaphore:
\* "async with self.semaphore" is entered.
T_Enter(m) ==
    /\ svc.pc # "exited"
    /\ mtask[m].st = "created"
    /\ CanAcquire(sem)
    /\ sem' = sem - 1
    /\ mtask' = [mtask EXCEPT ![m].st = "inside"]
    /\ UNCHANGED <<svc, mbox>>
    /\ UNCHANGED <<fvars, qvars, dvars, mvars>>

\* _process_email / _process_episode_source_email returns or raises (exc);
\* the semaphore is released.
T_Finish(m) ==
    /\ svc.pc # "exited"
    /\ mtask[m].st = "inside"
    /\ sem' = sem + 1
    /\ mtask' = [mtask EXCEPT ![m].st = "finished"]
    /\ \/ svc' = svc
       \/ svc' = [svc EXCEPT !.failed_tick = svc.tick]
    /\ UNCHANGED mbox
    /\ UNCHANGED <<fvars, qvars, dvars, mvars>>

EmailerSpecInit == QueueInit

EmailerNext ==
    \/ E_Start
    \/ E_Stop
    \/ E_LoopTest
    \/ E_FetchInbox
    \/ E_MarkInbox
    \/ E_FetchEpisodes
    \/ E_MarkEpisodes
    \/ E_Gather
    \/ E_IdleEnds
    \/ E_Disconnected
    \/ E_RunExit
    \/ \E m \in Msgs : T_Enter(m)
    \/ \E m \in Msgs : T_Finish(m)

EmailerSpec == EmailerSpecInit /\ [][EmailerNext]_vars

\* The event loop runs every coroutine that can run, and every awaited
\* mailbox call and every message's processing returns or raises; stop() is
\* the operator's choice and is not forced.
EmailerLiveSpec ==
    /\ EmailerSpec
    /\ WF_vars(E_Start) /\ WF_vars(E_LoopTest)
    /\ WF_vars(E_FetchInbox) /\ WF_vars(E_MarkInbox)
    /\ WF_vars(E_FetchEpisodes) /\ WF_vars(E_MarkEpisodes)
    /\ WF_vars(E_Gather) /\ WF_vars(E_IdleEnds)
    /\ WF_vars(E_Disconnected) /\ WF_vars(E_RunExit)
    /\ \A m \in Msgs : WF_vars(T_Enter(m)) /\ WF_vars(T_Finish(m))

----------------------------------------------------------------------------
(* Claims about the EmailerService *)

\* C18: at every moment the number of messages inside _process_email or
\* _process_episode_source_email, over both folders and all ticks, is at
\* most max_concurrent_jobs.
C18_ConcurrencyLimit ==
    Cardinality({m \in Msgs : mtask[m].st = "inside"}) <= max_concurrent_jobs

\* C18 witness: messages of two different ticks are inside at the same time
\* and fill the limit, while a third task waits for the semaphore.
C18_Witness ==
    /\ Cardinality({m \in Msgs : mtask[m].st = "inside"}) = max_concurrent_jobs
    /\ \E m, n \in Msgs :
          /\ mtask[m].st = "inside" /\ mtask[n].st = "inside"
          /\ mtask[m].tick # mtask[n].tick
    /\ \E m \in Msgs : mtask[m].st = "created"

\* C19: whenever _poll_and_process has returned and the inter-tick wait has
\* begun, every task created in that tick has finished, also when a mailbox
\* operation raised part-way through the tick.
C19_TickAwaitsItsTasks ==
    svc.pc = "idle"
    => \A m \in Msgs : mtask[m].tick = svc.tick => mtask[m].st = "finished"

\* C20: after stop() no further tick is started, no message task is
\* cancelled, and the mailbox connection is closed only when no message task
\* is in flight any more.
C20_GracefulStop ==
    /\ svc.shutdown => svc.tick = svc.stop_tick
    /\ \A m \in Msgs : mtask[m].st # "cancelled"
    /\ svc.pc \in {"disconnecting", "returned", "exited"} => InFlight = {}

\* A mailbox operation or a message's task raised in the current tick.
TickFailed == svc.tick > 0 /\ svc.failed_tick = svc.tick

----------------------------------------------------------------------------
(* Retention of the JobQueue's table (queue.py cleanup_old_jobs)           *)

\* JobQueue.cleanup_old_jobs has no caller in the service (the lifespan of
\* transcriber/main.py starts the worker and nothing else), so QueueNext has
\* no action that deletes from jobs.

\* C30: every entry of the job table that is completed or failed is
\* eventually removed from the table.
C30_TerminalEntriesRemoved ==
    \A j \in JobIds :
       (j \in DOMAIN jobs /\ jobs[j].status \in QueueTerminal)
       ~> (j \notin DOMAIN jobs)

----------------------------------------------------------------------------
(* resolve_tag (emailer/tag_resolver.py)                                    *)

\* A word is a name written in lower case or with upper-case letters.
TagNames == {"podcast", "meeting"}
Words == [w : TagNames, up : BOOLEAN]

\* settings.default_tag
DefaultTag == [w |-> "email", up |-> FALSE]

\* str.lower()
Lower(word) == [word EXCEPT !.up = FALSE]

\* subject.lower().split()
LowerSplit(words) == [i \in DOMAIN words |-> Lower(words[i])]

\* The loop "for word in words: if word in available_tags: return word"
\* from position i on.
RECURSIVE FirstKnown(_, _, _, _)
FirstKnown(words, available_tags, default, i) ==
    IF i > Len(words) THEN default
    ELSE IF words[i] \in available_tags THEN words[i]
    ELSE FirstKnown(words, available_tags, default, i + 1)

\* resolve_tag(subject, available_tags, default); "not subject" holds for
\* None and for the empty string.
resolve_tag(is_none, words, available_tags, default) ==
    IF is_none \/ words = <<>> THEN default
    ELSE FirstKnown(LowerSplit(words), available_tags, default, 1)

SubjectWords == UNION {[1..n -> Words] : n \in 0..MaxWords}

\* resolve_tag is called with a subject (None, or a line of words) and the
\* tag names that get_tags() returned: the keys of the tag configuration,
\* which create_tag_config stores as given.
R_Call ==
    /\ tagcall.pc = "idle"
    /\ \E none \in BOOLEAN, ws \in SubjectWords, tags \in SUBSET Words :
          /\ none => ws = <<>>
          /\ tagcall' = [tagcall EXCEPT !.pc = "called", !.is_none = none,
                                         !.words = ws, !.available_tags = tags]
    /\ UNCHANGED <<msg, proc, xvars>>
    /\ UNCHANGED <<fvars, qvars, dvars, evars>>

R_Return ==
    /\ tagcall.pc = "called"
    /\ tagcall' = [tagcall EXCEPT
                      !.pc = "returned",
                      !.result = resolve_tag(tagcall.is_none, tagcall.words,
                                             tagcall.available_tags, DefaultTag)]
    /\ UNCHANGED <<msg, proc, xvars>>
    /\ UNCHANGED <<fvars, qvars, dvars, evars>>

TagNext ==
    \/ R_Call
    \/ R_Return

TagSpec == QueueInit /\ [][TagNext]_vars

\* The positions of the subject whose token equals a known tag when case
\* is ignored.
MatchingTokens ==
    {i \in DOMAIN tagcall.words :
        \E t \in tagcall.available_tags : Lower(t) = Lower(tagcall.words[i])}

Least(S) == CHOOSE i \in S : \A k \in S : i <= k

\* C28: resolve_tag returns a known tag that equals, case ignored, the first
\* token of the subject that equals some known tag case ignored, whenever
\* there is such a token, and the default tag otherwise (subject None or
\* empty, no known tags, no token matching).
C28_ResolveTag ==
    tagcall.pc = "returned"
    => IF MatchingTokens # {}
       THEN /\ tagcall.result \in tagcall.available_tags
            /\ Lower(tagcall.result) = Lower(tagcall.words[Least(MatchingTokens)])
       ELSE tagcall.result = DefaultTag

----------------------------------------------------------------------------
(* One message: EmailerService._process_email, _handle_no_urls,            *)
(* _send_result_email, _process_episode_source_email and                    *)
(* EpisodeSourceProcessor.process_email                                     *)

\* The URLs a body can contain: a YouTube watch URL, a youtu.be URL, a
\* direct .mp3 URL and the URL of an ordinary web page.
BodyUrls == {"yt_watch", "youtu_be", "mp3", "web"}

\* url_extractor.is_transcribable_url
is_transcribable_url(u) == u \in {"yt_watch", "youtu_be", "mp3"}

\* episode_source_urls._is_episode_source_url
_is_episode_source_url(u) == u \in {"yt_watch", "youtu_be"}

SeqRange(q) == {q[k] : k \in DOMAIN q}

\* list(urls) of a Python set: the elements of S in the iteration order of
\* the set, which is any order.
ListOfSet(S) ==
    {q \in [1..Cardinality(S) -> S] : SeqRange(q) = S}

\* extract_urls(body, is_html) / extract_episode_source_urls(body, is_html):
\* the matching URLs are added to a set and the set is returned as a list.
extract_urls(body, episode) ==
    ListOfSet({u \in SeqRange(body) :
                 IF episode THEN _is_episode_source_url(u)
                 ELSE is_transcribable_url(u)})

\* list(dict.fromkeys(urls)): the first occurrence of every element, in order
RECURSIVE Dedupe(_)
Dedupe(q) ==
    IF q = <<>> THEN <<>>
    ELSE LET front == Dedupe(SubSeq(q, 1, Len(q) - 1))
             last == q[Len(q)]
         IN  IF last \in SeqRange(front) THEN front ELSE Append(front, last)

Bodies(n) == UNION {[1..k -> BodyUrls] : k \in 0..n}

\* A message of one of the two folders is handed to its coroutine.
M_Receive ==
    /\ msg.pc = "idle"
    /\ \E f \in {"inbox", "episodes"}, t \in Bodies(MaxBodyUrls), h \in Bodies(1) :
          msg' = [msg EXCEPT !.pc = "extract", !.folder = f,
                             !.body_text = t, !.body_html = h]
    /\ UNCHANGED <<tagcall, proc, xvars>>
    /\ UNCHANGED <<fvars, qvars, dvars, evars>>

\* urls.extend(extract(body_text)); urls.extend(extract(body_html));
\* urls = list(dict.fromkeys(urls)); then the test "if not urls".
M_Extract ==
    /\ msg.pc = "extract"
    /\ \E t \in extract_urls(msg.body_text, msg.folder = "episodes"),
          h \in extract_urls(msg.body_html, msg.folder = "episodes") :
          LET urls == Dedupe(t \o h)
          IN  msg' = [msg EXCEPT
                        !.urls = urls,
                        !.i = IF urls = <<>> THEN 0 ELSE 1,
                        !.pc = IF msg.folder = "inbox"
                               THEN (IF urls = <<>> THEN "no_urls_send"
                                     ELSE "tag_config")
                               ELSE (IF urls = <<>> THEN "es_send"
                                     ELSE "es_try")]
    /\ UNCHANGED <<tagcall, proc, xvars>>
    /\ UNCHANGED <<fvars, qvars, dvars, evars>>

\* email.sender, the addresses a tag can route to, and
\* settings.episode_sources_return_address
Sender == "sender"
ReturnAddress == "return"

\* What get_tag_config leaves in tag_config: None (the tag has no
\* configuration, or the request raised), or a configuration whose
\* destination_emails is missing or empty, or lists addresses.
TagConfigs ==
    {[is_none |-> TRUE, destination_emails |-> <<>>]}
    \cup {[is_none |-> FALSE, destination_emails |-> d] :
            d \in {<<>>, <<"dest1">>, <<"dest1", "dest2">>}}

Mail(to, kind, url) == [to |-> to, kind |-> kind, url |-> url]

\* A filing of messages without URLs under the done folder (mutant of
\* NoUrlsFolder).
NoUrlsFiledAsDone == "done"

\* _handle_no_urls: move_to_folder(email.msg_num, settings.imap_folder_error)
NoUrlsFolder == "error"

\* Recipients that always include the sender (mutant of Recipients).
RecipientsWithSender(result, tag_config) ==
    IF result.success /\ ~tag_config.is_none
    THEN Append(tag_config.destination_emails, Sender)
    ELSE <<Sender>>

\* _send_result_email: the addresses the mail about result goes to.
Recipients(result, tag_config) ==
    IF result.success
    THEN LET destination_emails == IF tag_config.is_none THEN <<>>
                                   ELSE tag_config.destination_emails
         IN  IF destination_emails # <<>> THEN destination_emails
             ELSE <<Sender>>
    ELSE <<Sender>>

\* _handle_no_urls, first await: the "no transcribable URLs" mail to the
\* sender; send_email raising ends the coroutine.
M_NoUrlsSend ==
    /\ msg.pc = "no_urls_send"
    /\ \/ msg' = [msg EXCEPT !.pc = "no_urls_move",
                              !.mails = Append(@, Mail(Sender, "no_urls", ""))]
       \/ msg' = [msg EXCEPT !.pc = "raised"]
    /\ UNCHANGED <<tagcall, proc, xvars>>
    /\ UNCHANGED <<fvars, qvars, dvars, evars>>

\* _handle_no_urls, second await: the move, whose failure is only logged.
M_NoUrlsMove ==
    /\ msg.pc = "no_urls_move"
    /\ \/ msg' = [msg EXCEPT !.pc = "done", !.filed = NoUrlsFolder]
       \/ msg' = [msg EXCEPT !.pc = "done", !.move_failed = TRUE]
    /\ UNCHANGED <<tagcall, proc, xvars>>
    /\ UNCHANGED <<fvars, qvars, dvars, evars>>

\* get_tags, resolve_tag and get_tag_config: whatever the tag is, tag_config
\* ends as None or as the configuration of the tag.
M_TagConfig ==
    /\ msg.pc = "tag_config"
    /\ \E c \in TagConfigs : msg' = [msg EXCEPT !.pc = "process", !.tag_config = c]
    /\ UNCHANGED <<tagcall, proc, xvars>>
    /\ UNCHANGED <<fvars, qvars, dvars, evars>>

\* "result = await self.processor.process_url(url, tag=tag)": the URL is
\* submitted and a JobResult for it comes back (process_url catches every
\* Exception); results.append(result); _send_result_email begins.
M_ProcessUrl ==
    /\ msg.pc = "process"
    /\ \E ok \in BOOLEAN :
          LET url == msg.urls[msg.i]
              result == [url |-> url, success |-> ok]
          IN  msg' = [msg EXCEPT !.pc = "send",
                                 !.submitted = Append(@, url),
                                 !.result = result,
                                 !.results = Append(@, result),
                                 !.rcpt = Recipients(result, msg.tag_config)]
    /\ UNCHANGED <<tagcall, proc, xvars>>
    /\ UNCHANGED <<fvars, qvars, dvars, evars>>

\* One send_email of _send_result_email; after the last recipient the for
\* loop over urls goes on, or ends and the move follows.  send_email
\* raising ends the coroutine.
M_SendResult ==
    /\ msg.pc = "send"
    /\ \/ msg' = [msg EXCEPT
                     !.mails = Append(@, Mail(Head(msg.rcpt),
                                              IF msg.result.success THEN "success"
                                              ELSE "error",
                                              msg.result.url)),
                     !.rcpt = Tail(@),
                     !.i = IF Tail(msg.rcpt) = <<>> /\ msg.i < Len(msg.urls)
                           THEN @ + 1 ELSE @,
                     !.pc = IF Tail(msg.rcpt) # <<>> THEN "send"
                            ELSE IF msg.i < Len(msg.urls) THEN "process"
                            ELSE "move"]
       \/ msg' = [msg EXCEPT !.pc = "raised"]
    /\ UNCHANGED <<tagcall, proc, xvars>>
    /\ UNCHANGED <<fvars, qvars, dvars, evars>>

\* A folder choice that wants every URL to have succeeded (mutant of
\* target_folder).
FolderByAllSuccess(results) ==
    IF \A k \in DOMAIN results : results[k].success THEN "done" ELSE "error"

\* any_success = any(r.success for r in results) decides the folder.
target_folder(results) ==
    LET any_success == \E k \in DOMAIN results : results[k].success
    IN  IF any_success THEN "done" ELSE "error"

\* The move after the loop; a failing move is only logged.
M_Move ==
    /\ msg.pc = "move"
    /\ \/ msg' = [msg EXCEPT !.pc = "done", !.filed = target_folder(msg.results)]
       \/ msg' = [msg EXCEPT !.pc = "done", !.move_failed = TRUE]
    /\ UNCHANGED <<tagcall, proc, xvars>>
    /\ UNCHANGED <<fvars, qvars, dvars, evars>>

\* A loop that goes on to the next candidate after a success (mutant of
\* TryNext).
TryNextAfterSuccess(ok, i, n) == i < n

\* EpisodeSourceProcessor.process_email: "if result.success: return result",
\* otherwise the next candidate while there is one.
TryNext(ok, i, n) == ~ok /\ i < n

\* One round of "for i, url in enumerate(urls)": _try_url submits the URL
\* and returns a JobResult; after the last failure the result names urls[0].
M_EsTry ==
    /\ msg.pc = "es_try"
    /\ \E ok \in BOOLEAN :
          LET url == msg.urls[msg.i]
              result == [url |-> url, success |-> ok]
              next == TryNext(ok, msg.i, Len(msg.urls))
          IN  msg' = [msg EXCEPT
                        !.submitted = Append(@, url),
                        !.results = Append(@, result),
                        !.i = IF next THEN @ + 1 ELSE @,
                        !.pc = IF next THEN "es_try" ELSE "es_send",
                        !.result = IF next THEN @
                                   ELSE IF ok THEN result
                                   ELSE [url |-> msg.urls[1], success |-> FALSE]]
    /\ UNCHANGED <<tagcall, proc, xvars>>
    /\ UNCHANGED <<fvars, qvars, dvars, evars>>

\* _process_episode_source_email: the success mail goes to the return
\* address, the error mail to the sender; send_email raising ends the
\* coroutine.
M_EsSend ==
    /\ msg.pc = "es_send"
    /\ \/ msg' = [msg EXCEPT
                     !.pc = "es_move",
                     !.mails = Append(@, IF msg.result.success
                                         THEN Mail(ReturnAddress, "success", msg.result.url)
                                         ELSE Mail(Sender, "error", msg.result.url))]
       \/ msg' = [msg EXCEPT !.pc = "raised"]
    /\ UNCHANGED <<tagcall, proc, xvars>>
    /\ UNCHANGED <<fvars, qvars, dvars, evars>>

\* The move to episode_sources_done or episode_sources_error; a failing
\* move is only logged.
M_EsMove ==
    /\ msg.pc = "es_move"
    /\ \/ msg' = [msg EXCEPT !.pc = "done",
                              !.filed = IF msg.result.success THEN "done" ELSE "error"]
       \/ msg' = [msg EXCEPT !.pc = "done", !.move_failed = TRUE]
    /\ UNCHANGED <<tagcall, proc, xvars>>
    /\ UNCHANGED <<fvars, qvars, dvars, evars>>

MessageNext ==
    \/ M_Receive
    \/ M_Extract
    \/ M_NoUrlsSend
    \/ M_NoUrlsMove
    \/ M_TagConfig
    \/ M_ProcessUrl
    \/ M_SendResult
    \/ M_Move
    \/ M_EsTry
    \/ M_EsSend
    \/ M_EsMove

MessageSpec == QueueInit /\ [][MessageNext]_vars

----------------------------------------------------------------------------
(* Claims about the processing of one message *)

IsPrefix(p, q) == Len(p) <= Len(q) /\ p = SubSeq(q, 1, Len(p))

Extracted == msg.pc \notin {"idle", "extract"}

\* The candidates were submitted one at a time in list order, and every
\* JobResult names the candidate it was obtained for.
InListOrder ==
    /\ IsPrefix(msg.submitted, msg.urls)
    /\ Len(msg.results) = Len(msg.submitted)
    /\ \A k \in DOMAIN msg.results : msg.results[k].url = msg.urls[k]

\* No candidate was submitted after an earlier one had succeeded.
StoppedAtFirstSuccess ==
    \A j, k \in DOMAIN msg.results : j < k => ~msg.results[j].success

SuccessMailsTo(url) ==
    {msg.mails[n].to : n \in {k \in DOMAIN msg.mails :
                                msg.mails[k].kind = "success" /\ msg.mails[k].url = url}}

FirstSeen ==
    LET Accepts(u) == IF msg.folder = "episodes" THEN _is_episode_source_url(u)
                      ELSE is_transcribable_url(u)
    IN  Dedupe(SelectSeq(msg.body_text \o msg.body_html, Accepts))

\* C29: the candidate list holds each extracted URL exactly once in the
\* order of first occurrence, and the candidates are tried in that order.
C29_FirstSeenOrder ==
    Extracted => msg.urls = FirstSeen /\ IsPrefix(msg.submitted, msg.urls)

\* The mails about the outcome of urls[k].
MailsAbout(k) ==
    {n \in DOMAIN msg.mails : msg.mails[n].url = msg.urls[k]}

C32_MovedOnEveryPath ==
    msg.pc \in {"done", "raised"} => msg.filed \in {"done", "error"}

----------------------------------------------------------------------------
(* ApplePodcastsScraper._fetch_page                                         *)
(* (frontend/services/apple_podcasts_scraper.py)                            *)

\* The status codes raise_for_status raises HTTPStatusError for.
ErrorStatus == {304, 404, 499, 500, 503}

\* What one pass through the with block does: the response is returned
\* (exc "none"), or client.get raises a TimeoutException or another
\* RequestError, or raise_for_status raises HTTPStatusError.
FetchOutcomes ==
    {[exc |-> e, status |-> 0] : e \in {"none", "TimeoutException", "RequestError"}}
    \cup {[exc |-> "HTTPStatusError", status |-> c] : c \in ErrorStatus}

\* The exceptions the three except clauses catch.
Handled == {"TimeoutException", "HTTPStatusError", "RequestError"}

\* A loop that goes on after every HTTPStatusError (mutant of Retried).
RetriedOnAnyStatus(o) == o.exc \in Handled

\* The handlers that fall through to the next iteration: a timeout, a
\* status of 500 or more, a request error.
Retried(o) ==
    \/ o.exc = "TimeoutException"
    \/ o.exc = "HTTPStatusError" /\ o.status >= 500
    \/ o.exc = "RequestError"

\* "for attempt in range(self.max_retries)" is entered, or the loop is
\* empty and None is returned.
F_Call ==
    /\ fetch.pc = "idle"
    /\ \E n \in 0..MaxRetries :
          fetch' = [fetch EXCEPT !.max_retries = n,
                                 !.pc = IF n > 0 THEN "request" ELSE "returned",
                                 !.result = IF n > 0 THEN @ ELSE "None"]
    /\ UNCHANGED <<tagcall, msg, proc, cache, imap>>
    /\ UNCHANGED <<fvars, qvars, dvars, evars>>

\* One iteration: the request, raise_for_status and the except clauses.
F_Attempt ==
    /\ fetch.pc = "request"
    /\ \E o \in FetchOutcomes :
          LET tried == [fetch EXCEPT !.outcomes = Append(@, o)]
          IN  fetch' =
                IF o.exc = "none"
                THEN [tried EXCEPT !.pc = "returned", !.result = "text"]
                ELSE IF o.exc \notin Handled
                THEN [tried EXCEPT !.pc = "raised"]
                ELSE IF ~Retried(o)
                THEN [tried EXCEPT !.pc = "returned", !.result = "None"]
                ELSE IF fetch.attempt + 1 < fetch.max_retries
                THEN [tried EXCEPT !.attempt = @ + 1]
                ELSE [tried EXCEPT !.pc = "returned", !.result = "None"]
    /\ UNCHANGED <<tagcall, msg, proc, cache, imap>>
    /\ UNCHANGED <<fvars, qvars, dvars, evars>>

FetchNext ==
    \/ F_Call
    \/ F_Attempt

FetchSpec == QueueInit /\ [][FetchNext]_vars

\* C33: _fetch_page makes at most max_retries requests; every request but
\* the last ended in a timeout, a 5xx status or a request error; it never
\* raises; it returns the page exactly when the last request succeeded,
\* and None otherwise, which is either right after a status below 500 or
\* after max_retries failed requests.
C33_BoundedRetries ==
    LET n == Len(fetch.outcomes)
        IsTransient(o) ==
            \/ o.exc \in {"TimeoutException", "RequestError"}
            \/ o.exc = "HTTPStatusError" /\ o.status \in {500, 503}
    IN  /\ n <= fetch.max_retries
        /\ fetch.pc # "raised"
        /\ \A k \in 1..(n - 1) : IsTransient(fetch.outcomes[k])
        /\ fetch.pc = "request" => /\ n < fetch.max_retries
                                   /\ \A k \in 1..n : IsTransient(fetch.outcomes[k])
        /\ fetch.pc = "returned" =>
              IF n > 0 /\ fetch.outcomes[n].exc = "none"
              THEN fetch.result = "text"
              ELSE /\ fetch.result = "None"
                   /\ \/ n > 0 /\ fetch.outcomes[n].exc = "HTTPStatusError"
                               /\ fetch.outcomes[n].status \in {304, 404, 499}
                      \/ /\ n = fetch.max_retries
                         /\ \A k \in 1..n : IsTransient(fetch.outcomes[k])

\* C33 witness: max_retries = 3 and three failed requests, a timeout, a 503
\* and a request error, after which None was returned.
C33_Witness ==
    /\ fetch.pc = "returned" /\ fetch.result = "None"
    /\ fetch.max_retries = 3
    /\ Len(fetch.outcomes) = 3
    /\ fetch.outcomes[1].exc = "TimeoutException"
    /\ fetch.outcomes[2].status = 503
    /\ fetch.outcomes[3].exc = "RequestError"

----------------------------------------------------------------------------
(* JobProcessor.process_url and _process_existing (emailer/job_processor.py) *)
(* against the frontend's POST /api/transcribe                               *)

\* The text of the frontend's 409 answer and the errors of a JobResult.
ConflictText == "This URL has already been transcribed"
JobErrors == {"None", "download failed"}

\* The id of the Job of url u (parse_url(u).id) is a function of u.
IdOf(u) == u

Failure(error) == [success |-> FALSE, error |-> error]

\* "error=result.error or 'Transcription failed'"
ErrorOr(error) == IF error = "None" THEN "Transcription failed" ELSE error

\* What an awaited FrontendClient request raises when it fails: httpx's
\* HTTPStatusError of raise_for_status (msg: its message, text: the response
\* body, which may be empty), an httpx.TimeoutException (whose message is
\* the transport's and may be empty) or another httpx.RequestError.
RequestErrors ==
    {[cls |-> "HTTPStatusError", msg |-> "Server error '500'", text |-> t] :
        t \in {"", "Internal Server Error"}}
    \cup {[cls |-> "TimeoutException", msg |-> m, text |-> ""] : m \in {"", "timed out"}}
    \cup {[cls |-> "ConnectError", msg |-> "All connection attempts failed", text |-> ""]}

\* wait_for_completion also raises TimeoutError(f"... did not complete ...")
WaitErrors ==
    RequestErrors
    \cup {[cls |-> "TimeoutError", msg |-> "did not complete", text |-> ""]}

\* The except clauses of process_url: the error of the JobResult returned for
\* exception e raised inside the outer try.
ErrorOf(e) ==
    CASE e.cls = "HTTPStatusError" ->
            IF e.text # "" THEN e.text ELSE "HTTP error: 500"
      [] e.cls = "TimeoutError" -> e.msg
      [] e.cls = "TimeoutException" -> "Request timed out"
      [] OTHER -> IF e.msg # "" THEN e.msg ELSE "Unexpected error"

\* The handlers around "return await self._process_existing(...)": an
\* HTTPStatusError is handed to the code below (e = inner_e), any other
\* exception gives error=str(inner_e).
ErrorOfExisting(e) ==
    IF e.cls = "HTTPStatusError" THEN ErrorOf(e) ELSE e.msg

\* The error of the JobResult for e raised at position pc.
ErrorAt(pc, e) ==
    IF pc \in {"wait_existing", "transcript_existing", "summary_existing"}
    THEN ErrorOfExisting(e) ELSE ErrorOf(e)

\* A handler that reports every 409 as an HTTP error (mutant of OnConflict).
ConflictIsFailure(p) ==
    [p EXCEPT !.pc = "idle", !.answer = "409", !.result = Failure(ConflictText)]

\* "if e.response.status_code == 409 ... existing_id = data.get('existing_id')
\* ... return await self._process_existing(url, existing_id)"
OnConflict(p) ==
    [p EXCEPT !.pc = "wait_existing", !.answer = "409", !.waited = IdOf(p.url)]

\* process_url(url) is called.
P_Call ==
    /\ proc.pc = "idle"
    /\ proc.calls < MaxProcCalls
    /\ \E u \in ProcUrls :
          proc' = [proc EXCEPT !.pc = "submit", !.url = u, !.calls = @ + 1,
                               !.answer = "none", !.waited = "none",
                               !.seen = NoJob, !.fetched = FALSE,
                               !.result = Failure("None")]
    /\ UNCHANGED <<tagcall, msg, xvars>>
    /\ UNCHANGED <<fvars, qvars, dvars, evars>>

\* frontend.submit_url: the route answers 409 with existing_id when a Job of
\* that URL exists, otherwise it creates the Job and returns its id; or the
\* request fails otherwise (another status, a timeout, no connection).
P_Submit ==
    /\ proc.pc = "submit"
    /\ IF proc.jobs[proc.url].status # "none"
       THEN \/ proc' = OnConflict(proc)
            \/ \E e \in RequestErrors \ {x \in RequestErrors : x.cls = "HTTPStatusError"} :
                  proc' = [proc EXCEPT !.pc = "idle", !.answer = "error",
                                       !.result = Failure(ErrorOf(e))]
       ELSE \/ proc' = [proc EXCEPT !.pc = "wait", !.answer = "202",
                                    !.waited = IdOf(proc.url),
                                    !.jobs[proc.url].status = "pending",
                                    !.created[proc.url] = @ + 1]
            \/ \E e \in RequestErrors :
                  proc' = [proc EXCEPT !.pc = "idle", !.answer = "error",
                                       !.result = Failure(ErrorOf(e))]
    /\ UNCHANGED <<tagcall, msg, xvars>>
    /\ UNCHANGED <<fvars, qvars, dvars, evars>>

\* The frontend's orchestrator brings a pending Job to completed or failed.
P_JobEnds ==
    /\ \E u \in ProcUrls :
          /\ proc.jobs[u].status = "pending"
          /\ \/ proc' = [proc EXCEPT !.jobs[u].status = "completed"]
             \/ \E e \in JobErrors :
                   proc' = [proc EXCEPT !.jobs[u] = [status |-> "failed", error |-> e]]
    /\ UNCHANGED <<tagcall, msg, xvars>>
    /\ UNCHANGED <<fvars, qvars, dvars, evars>>

\* wait_for_completion(id) returns the Job once it is completed or failed,
\* or raises (TimeoutError after max_wait, or a failed request); the same
\* in process_url and in _process_existing.
P_Wait ==
    /\ proc.pc \in {"wait", "wait_existing"}
    /\ LET job == proc.jobs[proc.url]
       IN  \/ /\ job.status = "completed"
              /\ proc' = [proc EXCEPT !.seen = job,
                                      !.pc = IF proc.pc = "wait" THEN "transcript"
                                             ELSE "transcript_existing"]
           \/ /\ job.status = "failed"
              /\ proc' = [proc EXCEPT !.seen = job, !.pc = "idle",
                                      !.result = Failure(ErrorOr(job.error))]
           \/ \E e \in WaitErrors :
                 proc' = [proc EXCEPT !.pc = "idle",
                                      !.result = Failure(ErrorAt(proc.pc, e))]
    /\ UNCHANGED <<tagcall, msg, xvars>>
    /\ UNCHANGED <<fvars, qvars, dvars, evars>>

\* get_transcript_text returns or raises.
P_Transcript ==
    /\ proc.pc \in {"transcript", "transcript_existing"}
    /\ \/ proc' = [proc EXCEPT !.pc = IF proc.pc = "transcript" THEN "summary"
                                      ELSE "summary_existing"]
       \/ \E e \in RequestErrors :
             proc' = [proc EXCEPT !.pc = "idle",
                                  !.result = Failure(ErrorAt(proc.pc, e))]
    /\ UNCHANGED <<tagcall, msg, xvars>>
    /\ UNCHANGED <<fvars, qvars, dvars, evars>>

\* generate_summary returns (JobResult(success=True)) or raises.
P_Summary ==
    /\ proc.pc \in {"summary", "summary_existing"}
    /\ \/ proc' = [proc EXCEPT !.pc = "idle", !.fetched = TRUE,
                               !.result = [success |-> TRUE, error |-> "None"]]
       \/ \E e \in RequestErrors :
             proc' = [proc EXCEPT !.pc = "idle",
                                  !.result = Failure(ErrorAt(proc.pc, e))]
    /\ UNCHANGED <<tagcall, msg, xvars>>
    /\ UNCHANGED <<fvars, qvars, dvars, evars>>

ProcNext ==
    \/ P_Call
    \/ P_Submit
    \/ P_JobEnds
    \/ P_Wait
    \/ P_Transcript
    \/ P_Summary

ProcSpec == QueueInit /\ [][ProcNext]_vars

\* process_url has returned after a submission answered 409.
ReturnedAfterConflict == proc.pc = "idle" /\ proc.answer = "409"

Returned == proc.pc = "idle" /\ proc.calls > 0

\* C34: process_url always returns a JobResult: a failure carries a
\* non-empty error, and success is returned only after the Job was seen
\* completed and its transcript and summary were obtained.
C34_AlwaysAResult ==
    Returned =>
       IF proc.result.success
       THEN proc.seen.status = "completed" /\ proc.fetched
       ELSE proc.result.error \notin {"", "None"}

----------------------------------------------------------------------------
(* The audio cache: Orchestrator.process_url's download and                 *)
(* _update_metadata, and CleanupService.cleanup_expired_audio               *)
(* (frontend/utils/cleanup.py)                                              *)

\* settings.audio_cache_days
audio_cache_days == 7

\* _create_job_record, downloader.download and _update_metadata of
\* process_url: the row is created without audio_path, the audio file is
\* written to the cache directory, and _update_metadata sets the metadata
\* columns and audio_cached_until = now + audio_cache_days.  No statement of
\* the frontend assigns the column audio_path.
CA_Download(j) ==
    /\ cache.rows[j].status = "none"
    /\ cache' = [cache EXCEPT
                   !.file[j] = TRUE,
                   !.rows[j] = [status |-> "transcribing",
                                audio_path |-> "None",
                                audio_cached_until |-> cache.now + audio_cache_days]]
    /\ UNCHANGED <<tagcall, msg, proc, fetch, imap>>
    /\ UNCHANGED <<fvars, qvars, dvars, evars>>

\* The rest of process_url: the Job ends completed or failed.
CA_JobEnds(j) ==
    /\ cache.rows[j].status = "transcribing"
    /\ \E st \in {"completed", "failed"} :
          cache' = [cache EXCEPT !.rows[j].status = st]
    /\ UNCHANGED <<tagcall, msg, proc, fetch, imap>>
    /\ UNCHANGED <<fvars, qvars, dvars, evars>>

\* A day passes.
CA_Tick ==
    /\ cache.now < MaxCacheClock
    /\ cache' = [cache EXCEPT !.now = @ + 1]
    /\ UNCHANGED <<tagcall, msg, proc, fetch, imap>>
    /\ UNCHANGED <<fvars, qvars, dvars, evars>>

\* _find_expired_audio: audio_cached_until < utcnow() and audio_path IS NOT
\* NULL (a NULL audio_cached_until compares as not true).
_find_expired_audio ==
    {j \in CacheJobs :
        /\ cache.rows[j].status # "none"
        /\ cache.rows[j].audio_cached_until # -1
        /\ cache.rows[j].audio_cached_until < cache.now
        /\ cache.rows[j].audio_path # "None"}

\* cleanup_expired_audio, called by run_periodic_cleanup: the file of every
\* expired row is unlinked when it exists and the row's audio_path is set
\* to NULL.
cleanup_expired_audio ==
    /\ cache.last_cleanup < cache.now
    /\ LET expired == _find_expired_audio
       IN  cache' = [cache EXCEPT
                       !.last_cleanup = cache.now,
                       !.file = [j \in CacheJobs |->
                                   IF j \in expired THEN FALSE ELSE @[j]],
                       !.rows = [j \in CacheJobs |->
                                   IF j \in expired
                                   THEN [@[j] EXCEPT !.audio_path = "None"]
                                   ELSE @[j]]]
    /\ UNCHANGED <<tagcall, msg, proc, fetch, imap>>
    /\ UNCHANGED <<fvars, qvars, dvars, evars>>

CacheNext ==
    \/ \E j \in CacheJobs : CA_Download(j)
    \/ \E j \in CacheJobs : CA_JobEnds(j)
    \/ CA_Tick
    \/ cleanup_expired_audio

CacheSpec == QueueInit /\ [][CacheNext]_vars

\* C35: for every Job whose audio the orchestrator downloaded, whatever its
\* status, a cleanup run made after its audio_cached_until has passed
\* leaves no cached audio file of the Job.
C35_ExpiredAudioDeleted ==
    \A j \in CacheJobs :
        (/\ cache.rows[j].audio_cached_until # -1
         /\ cache.last_cleanup > cache.rows[j].audio_cached_until)
        => ~cache.file[j]

----------------------------------------------------------------------------
(* Claims about the persisted results of a Job (frontend)                   *)

\* A Job with the id derived from u exists under another source_url.
IdTakenByOtherUrl(d, u) ==
    \E r \in d : r.id = parse_url(u).id /\ r.source_url # u

\* C38: no two Job records ever share an id, and the step that handles the
\* submission of a URL whose derived id belongs to a Job with a different
\* source_url (by POST /api/transcribe or by process_url) leaves the table
\* as it is: the existing record is unchanged and no record is added.
C38_NoSharedId ==
    [][/\ \A r1, r2 \in db' : r1.id = r2.id => r1 = r2
       /\ \A s \in Slots :
             (/\ task'[s] # task[s]
              /\ task[s].pc \in {"new", "ready"}
              /\ task'[s].pc # "ready"
              /\ IdTakenByOtherUrl(db, task'[s].url))
             => db' = db]_vars

\* C38 witness: the watch form of a video has its Job, and the submission
\* of the youtu.be form of the same video was answered without a second
\* record.
C38_Witness ==
    /\ \E r \in db : r.source_url = UrlWatch
    /\ \E s \in Slots : /\ task[s].url = UrlShort
                         /\ task[s].pc = "done"
                         /\ parse_url(UrlShort).id = parse_url(UrlWatch).id
    /\ Cardinality(db) = 1

\* C36: whenever no coroutine holds the event loop, so that any request can
\* read the table, every Job whose status is completed has its transcript
\* saved (transcription_path and full_text set).
C36_CompletedHasTranscript ==
    loop = 0 => \A r \in db : r.status = "completed" => r.transcript

----------------------------------------------------------------------------
(* The shared IMAP connection: ImapClient.fetch_unseen, mark_seen and       *)
(* move_to_folder (emailer/imap_client.py) as used by _poll_and_process and *)
(* the message tasks (emailer/main.py)                                      *)

\* A message is delivered to one of the two polled folders.
IM_Arrive ==
    /\ imap.arrived < MaxImapMsgs
    /\ \E f \in {"inbox", "episodes"} :
          imap' = [imap EXCEPT !.arrived = @ + 1,
                               !.folder[f] = Append(@, imap.arrived + 1)]
    /\ UNCHANGED <<tagcall, msg, proc, fetch, cache>>
    /\ UNCHANGED <<fvars, qvars, dvars, evars>>

\* The sequence numbers "SEARCH UNSEEN" returns in folder f.
Unseen(f) ==
    {k \in DOMAIN imap.folder[f] : imap.folder[f][k] \notin imap.seen}

\* fetch_unseen(f) and the loop after it: select_folder(f), the search, and
\* for every message found mark_seen(msg_num) and create_task with the
\* EmailMessage that carries msg_num; the tasks created here have not run
\* a move before the loop ends.
IM_FetchUnseen(f) ==
    /\ imap.pc = f
    /\ LET found == {imap.folder[f][k] : k \in Unseen(f)}
           NumOf(m) == CHOOSE k \in Unseen(f) : imap.folder[f][k] = m
       IN  imap' = [imap EXCEPT
                      !.selected = f,
                      !.seen = @ \cup found,
                      !.task = [m \in ImapMsgs |->
                                  IF m \in found
                                  THEN [st |-> "created", msg_num |-> NumOf(m),
                                        from |-> f]
                                  ELSE @[m]],
                      !.pc = IF f = "inbox" THEN "episodes" ELSE "gather"]
    /\ UNCHANGED <<tagcall, msg, proc, fetch, cache>>
    /\ UNCHANGED <<fvars, qvars, dvars, evars>>

\* asyncio.gather(*tasks) returns when every task of the tick has ended;
\* the next tick begins.
IM_Gather ==
    /\ imap.pc = "gather"
    /\ \A m \in ImapMsgs : imap.task[m].st \in {"none", "moved", "move_failed"}
    /\ imap' = [imap EXCEPT !.pc = "inbox"]
    /\ UNCHANGED <<tagcall, msg, proc, fetch, cache>>
    /\ UNCHANGED <<fvars, qvars, dvars, evars>>

\* The message that sequence number n names on the connection now: that of
\* the selected folder (0: there is none).
Named(n) ==
    IF imap.selected # "none" /\ n \in DOMAIN imap.folder[imap.selected]
    THEN imap.folder[imap.selected][n] ELSE 0

\* The message the commands of m's task act on: "copy(msg_num, folder)" and
\* "store(msg_num, ...)" name it by the sequence number the task was given.
Target(m) == Named(imap.task[m].msg_num)

\* move_to_folder, first await: COPY msg_num to the destination; a status
\* other than OK raises and the caller logs the failed move.
MV_Copy(m) ==
    /\ imap.task[m].st = "created"
    /\ LET x == Target(m)
       IN  IF x # 0
           THEN imap' = [imap EXCEPT !.task[m].st = "copied",
                                     !.copied = @ \cup {<<m, x>>}]
           ELSE imap' = [imap EXCEPT !.task[m].st = "move_failed"]
    /\ UNCHANGED <<tagcall, msg, proc, fetch, cache>>
    /\ UNCHANGED <<fvars, qvars, dvars, evars>>

\* move_to_folder, second await: STORE msg_num +FLAGS \Deleted, whose status
\* is not looked at.
MV_Store(m) ==
    /\ imap.task[m].st = "copied"
    /\ LET x == Target(m)
       IN  IF x # 0
           THEN imap' = [imap EXCEPT !.task[m].st = "flagged",
                                     !.deleted = @ \cup {x},
                                     !.flagged = @ \cup {<<m, x>>}]
           ELSE imap' = [imap EXCEPT !.task[m].st = "flagged"]
    /\ UNCHANGED <<tagcall, msg, proc, fetch, cache>>
    /\ UNCHANGED <<fvars, qvars, dvars, evars>>

\* move_to_folder, third await: EXPUNGE removes every \Deleted message of
\* the selected folder and renumbers the rest.
MV_Expunge(m) ==
    /\ imap.task[m].st = "flagged"
    /\ LET f == imap.selected
           Kept(x) == x \notin imap.deleted
       IN  imap' = [imap EXCEPT
                      !.task[m].st = "moved",
                      !.folder[f] = SelectSeq(@, Kept),
                      !.deleted = @ \ SeqRange(imap.folder[f])]
    /\ UNCHANGED <<tagcall, msg, proc, fetch, cache>>
    /\ UNCHANGED <<fvars, qvars, dvars, evars>>

ImapNext ==
    \/ IM_Arrive
    \/ \E f \in {"inbox", "episodes"} : IM_FetchUnseen(f)
    \/ IM_Gather
    \/ \E m \in ImapMsgs : MV_Copy(m)
    \/ \E m \in ImapMsgs : MV_Store(m)
    \/ \E m \in ImapMsgs : MV_Expunge(m)

ImapSpec == QueueInit /\ [][ImapNext]_vars

\* C37: the copy and the \Deleted flag of the move made by the task of
\* message m are applied to m itself, under every interleaving of the
\* tasks' moves and the poller's folder selection; no other message is
\* copied or deleted in its place.
C37_MoveHitsOwnMessage ==
    \A p \in imap.copied \cup imap.flagged : p[1] = p[2]

----------------------------------------------------------------------------
(* Claims about the JobQueue's FIFO and table                               *)

\* C39: the ids waiting in the FIFO are exactly the ids of the table's
\* entries with status queued: every id of the FIFO has an entry, no id
\* occurs in it twice, and every queued entry's id is in it.
C39_FifoIsQueuedEntries ==
    /\ \A k \in DOMAIN queue : queue[k] \in DOMAIN jobs
    /\ \A k, l \in DOMAIN queue : queue[k] = queue[l] => k = l
    /\ {queue[k] : k \in DOMAIN queue}
          = {j \in DOMAIN jobs : jobs[j].status = "queued"}

====
